---- MODULE Spec2Model ----
(***************************************************************************)
(* Model of the YAML data-loading layer (core/data/yaml_loader.py):        *)
(* per-subclass singleton registry, class-level document cache, first      *)
(* load, reload and the read operations; of the retry and polling helpers  *)
(* (core/utils/wait_utils.py); of the task runner (scripts/tasks.py); of   *)
(* the report hook (core/conftest.py); of the YAML validator               *)
(* (scripts/validate_yaml.py); and of the shopping actions                 *)
(* (team_alpha/actions/shopping_actions.py). Each part has a specification *)
(* of its own, in which the variables of the other parts stay as they are. *)
(*                                                                         *)
(* Python values are tagged records; records of different kinds have       *)
(* different field sets, so any two values can be compared.                *)
(*   [k |-> "none"]                 None                                   *)
(*   [k |-> "int",  n |-> 10]       int                                    *)
(*   [k |-> "str",  s |-> "abc"]    str                                    *)
(*   [k |-> "bool", b |-> TRUE]     bool                                   *)
(*   [k |-> "list", items |-> seq]  list                                   *)
(*   [k |-> "dict", e |-> seq]      dict, e = <<[key, val], ...>> in       *)
(*                                  insertion order, keys unique           *)
(* Mapping keys are strings and the root of an artifact is a mapping or    *)
(* empty, as the data model of the datasets states.                        *)
(***************************************************************************)
EXTENDS Integers, Sequences, FiniteSets, TLC

\* ------------------------------------------------------------------------
\* Universe: dataset types (loader subclasses), artifact paths, caller
\* handles, and the names callers ask for
\* ------------------------------------------------------------------------
\* BaseYamlDataLoader(path) takes the path from its caller;
\* TeamAlphaDataLoader() always passes google_shopping.yaml.
Types == {"BaseYamlDataLoader", "TeamAlphaDataLoader"}

Paths == {"google_shopping.yaml", "other.yaml"}

PathArgs(cls) == IF cls = "TeamAlphaDataLoader" THEN {"google_shopping.yaml"} ELSE Paths

SectionArgs == {"products", "config", "nosuch"}

ItemArgs == {"widget_a", "nosuch"}

\* ------------------------------------------------------------------------
\* Python values
\* ------------------------------------------------------------------------
PyNone == [k |-> "none"]

PyInt(n) == [k |-> "int", n |-> n]

PyStr(s) == [k |-> "str", s |-> s]

PyBool(b) == [k |-> "bool", b |-> b]

PyList(items) == [k |-> "list", items |-> items]

PyDict(e) == [k |-> "dict", e |-> e]

EmptyDict == PyDict(<<>>)

IsDict(v) == v.k = "dict"

\* list(d.keys()): the keys in insertion order
Keys(d) == [i \in 1..Len(d.e) |-> d.e[i].key]

KeySet(d) == {d.e[i].key : i \in 1..Len(d.e)}

\* d[key] for a key that is present
DictGet(d, key) == d.e[CHOOSE i \in 1..Len(d.e) : d.e[i].key = key].val

\* d[key] = val: an existing key keeps its position and takes the new value
DictSet(d, key, val) ==
    IF key \in KeySet(d)
    THEN PyDict([i \in 1..Len(d.e) |->
                    IF d.e[i].key = key THEN [key |-> key, val |-> val] ELSE d.e[i]])
    ELSE PyDict(Append(d.e, [key |-> key, val |-> val]))

\* The characters of the strings that occur as str values or as item keys
Chars(s) ==
    CASE s = "widget_a" -> <<"w", "i", "d", "g", "e", "t", "_", "a">>
      [] s = "see widget_a" -> <<"s", "e", "e", " ", "w", "i", "d", "g", "e", "t", "_", "a">>
      [] s = "timeout" -> <<"t", "i", "m", "e", "o", "u", "t">>
      [] s = "nosuch" -> <<"n", "o", "s", "u", "c", "h">>
      [] s = "widget a" -> <<"w", "i", "d", "g", "e", "t", " ", "a">>
      [] OTHER -> <<s>>

\* str.__contains__: sub occurs in s as a contiguous run
IsSubstring(sub, s) ==
    LET a == Chars(sub)
        b == Chars(s)
    IN \E i \in 0..(Len(b) - Len(a)) : \A j \in 1..Len(a) : b[i + j] = a[j]

\* The `in` operator: key in container. exc = "TypeError" for a container
\* that is not iterable (None, int).
PyIn(key, container) ==
    CASE container.k = "dict" -> [exc |-> "none", b |-> key \in KeySet(container)]
      [] container.k = "str" -> [exc |-> "none", b |-> IsSubstring(key, container.s)]
      [] OTHER -> [exc |-> "TypeError", b |-> FALSE]

\* ------------------------------------------------------------------------
\* Artifacts: what a path holds. A text is a YAML node tree as written,
\* where a mapping node lists its entries in source order and may repeat a
\* key; wf = FALSE is a text the parser rejects.
\* ------------------------------------------------------------------------
NNull == [k |-> "null"]

NInt(n) == [k |-> "int", n |-> n]

NStr(s) == [k |-> "str", s |-> s]

NMap(e) == [k |-> "map", e |-> e]

Entry(key, val) == [key |-> key, val |-> val]

Absent == [k |-> "absent"]

Text(wf, node) == [k |-> "text", wf |-> wf, node |-> node]

\* an empty (or whitespace/comment only) file
EmptyText == Text(TRUE, NNull)

MalformedText == Text(FALSE, NNull)

\* products:
\*   widget_a: {search_term: "widget a", min_price: 10, max_price: 20}
\* config: {timeout: 30}
DocA ==
    Text(TRUE, NMap(<<
        Entry("products", NMap(<<
            Entry("widget_a", NMap(<<Entry("search_term", NStr("widget a")),
                                     Entry("min_price", NInt(10)),
                                     Entry("max_price", NInt(20))>>))>>)),
        Entry("config", NMap(<<Entry("timeout", NInt(30))>>))>>))

\* config: 5
\* products: "see widget_a"
\* config:
DocB ==
    Text(TRUE, NMap(<<
        Entry("config", NInt(5)),
        Entry("products", NStr("see widget_a")),
        Entry("config", NNull)>>))

Contents == {Absent, EmptyText, MalformedText, DocA, DocB}

\* what the environment puts at each path
ContentsAt(path) == IF path = "google_shopping.yaml" THEN Contents ELSE {Absent, DocB}

FileSystems == {f \in [Paths -> Contents] : \A p \in Paths : f[p] \in ContentsAt(p)}

\* ------------------------------------------------------------------------
\* yaml.safe_load
\* ------------------------------------------------------------------------
RECURSIVE construct_object(_)
RECURSIVE construct_mapping(_, _)

\* folds the entries of a mapping node into a dict, left to right
construct_mapping(entries, acc) ==
    IF entries = <<>> THEN acc
    ELSE construct_mapping(Tail(entries),
                           DictSet(acc, Head(entries).key, construct_object(Head(entries).val)))

construct_object(node) ==
    CASE node.k = "null" -> PyNone
      [] node.k = "int" -> PyInt(node.n)
      [] node.k = "str" -> PyStr(node.s)
      [] node.k = "map" -> construct_mapping(node.e, EmptyDict)

\* result of yaml.safe_load(f) on an existing file
safe_load(text) ==
    IF text.wf THEN [exc |-> "none", data |-> construct_object(text.node)]
    ELSE [exc |-> "YAMLError", data |-> PyNone]

\* ------------------------------------------------------------------------
\* Results of calls: a normal return carries ret, a raise carries the
\* exception class and, for KeyError, the message as the sequence of the
\* pieces the f-string puts together.
\* ------------------------------------------------------------------------
Return(v) == [exc |-> "none", ret |-> v]

Raise(e) == [exc |-> e]

RaiseMsg(e, msg) == [exc |-> e, msg |-> msg]

\* sep.join(names)
RECURSIVE join(_, _)
join(sep, names) ==
    IF Len(names) = 0 THEN <<>>
    ELSE IF Len(names) = 1 THEN <<names[1]>>
    ELSE <<names[1], sep>> \o join(sep, Tail(names))

\* ------------------------------------------------------------------------
\* Read operations of BaseYamlDataLoader, as functions of self.data
\* ------------------------------------------------------------------------
\* get_section whose message lists the name asked for
get_section_lists_request(data, section_name) ==
    IF ~PyIn(section_name, data).b
    THEN RaiseMsg("KeyError",
                  <<"Section '", section_name, "' not found in YAML. Available sections: ">>
                      \o join(", ", <<section_name>>))
    ELSE Return(DictGet(data, section_name))

get_section(data, section_name) ==
    IF ~PyIn(section_name, data).b
    THEN RaiseMsg("KeyError",
                  <<"Section '", section_name, "' not found in YAML. Available sections: ">>
                      \o join(", ", Keys(data)))
    ELSE Return(DictGet(data, section_name))

\* get_section_item whose message lists the sections of the document
get_section_item_lists_sections(data, section_name, item_key) ==
    LET r == get_section(data, section_name) IN
    IF r.exc # "none" THEN r
    ELSE LET section == r.ret
             c == PyIn(item_key, section)
         IN IF c.exc # "none" THEN Raise(c.exc)
            ELSE IF ~c.b
                 THEN IF IsDict(section)
                      THEN RaiseMsg("KeyError",
                                    <<"Item '", item_key, "' not found in section '", section_name,
                                      "'. Available items: ">> \o join(", ", Keys(data)))
                      ELSE Raise("AttributeError")
                 ELSE IF IsDict(section) THEN Return(DictGet(section, item_key))
                      ELSE Raise("TypeError")

\* section.keys() of a value that has no keys() is an AttributeError;
\* section[item_key] of a str is a TypeError
get_section_item(data, section_name, item_key) ==
    LET r == get_section(data, section_name) IN
    IF r.exc # "none" THEN r
    ELSE LET section == r.ret
             c == PyIn(item_key, section)
         IN IF c.exc # "none" THEN Raise(c.exc)
            ELSE IF ~c.b
                 THEN IF IsDict(section)
                      THEN RaiseMsg("KeyError",
                                    <<"Item '", item_key, "' not found in section '", section_name,
                                      "'. Available items: ">> \o join(", ", Keys(section)))
                      ELSE Raise("AttributeError")
                 ELSE IF IsDict(section) THEN Return(DictGet(section, item_key))
                      ELSE Raise("TypeError")

get_all_section_items(data, section_name) == get_section(data, section_name)

list_sections(data) == Return(PyList(Keys(data)))

list_section_items(data, section_name) ==
    LET r == get_section(data, section_name) IN
    IF r.exc # "none" THEN r
    ELSE IF IsDict(r.ret) THEN Return(PyList(Keys(r.ret)))
         ELSE Raise("AttributeError")

has_section(data, section_name) == Return(PyBool(PyIn(section_name, data).b))

\* only KeyError is caught
has_item(data, section_name, item_key) ==
    LET r == get_section(data, section_name) IN
    IF r.exc = "KeyError" THEN Return(PyBool(FALSE))
    ELSE IF r.exc # "none" THEN r
    ELSE LET c == PyIn(item_key, r.ret) IN
         IF c.exc # "none" THEN Raise(c.exc) ELSE Return(PyBool(c.b))

\* the walk without the isinstance(current, dict) test
RECURSIVE walk_keys_any_container(_, _, _)
walk_keys_any_container(current, keys, default) ==
    IF keys = <<>> THEN Return(current)
    ELSE LET c == PyIn(Head(keys), current) IN
         IF c.exc # "none" THEN Raise(c.exc)
         ELSE IF c.b /\ IsDict(current)
              THEN walk_keys_any_container(DictGet(current, Head(keys)), Tail(keys), default)
              ELSE IF c.b THEN Raise("TypeError") ELSE Return(default)

RECURSIVE walk_keys(_, _, _)
walk_keys(current, keys, default) ==
    IF keys = <<>> THEN Return(current)
    ELSE IF IsDict(current) /\ Head(keys) \in KeySet(current)
         THEN walk_keys(DictGet(current, Head(keys)), Tail(keys), default)
         ELSE Return(default)

get_config_value(data, keys, default) == walk_keys(data, keys, default)

\* the key chains and defaults callers pass to get_config_value
KeyChains ==
    {<<"products", "widget_a", "min_price">>, <<"products", "nosuch">>,
     <<"config", "timeout">>, <<"config", "timeout", "unit">>}

Defaults == {PyStr("x")}

\* ------------------------------------------------------------------------
\* State
\* ------------------------------------------------------------------------
VARIABLES
    files,          \* the file system: what each path holds
    _instances,     \* BaseYamlDataLoader._instances: class -> instance
    _data_cache,    \* BaseYamlDataLoader._data_cache: class -> document
    objs,           \* the loader objects made so far: class and yaml_file
    handles,        \* the loader objects callers hold a reference to
    last,           \* the call that has just returned or raised, as its caller
                    \* sees it; Idle between calls
    hist            \* history of one watched class (no part of the program):
                    \*   watch   the class, "-" when none is watched
                    \*   parses  safe_load calls since its reload() last ended
                    \*   seen    documents get_section has read since then
                    \*   text    the text its latest reload() read, when that
                    \*           reload succeeded

\* A call of one of the helpers of core/utils/wait_utils.py in progress
VARIABLES
    pc,             \* where the call stands; "idle" when none is in progress
    params,         \* the arguments of the call
    attempt,        \* wait_with_retry / wrapper: the loop variable
    current_wait,   \* wait_with_retry / wrapper: the local current_wait
    elapsed,        \* wait_for_condition: the local elapsed
    clock,          \* time.time(), in ticks since the call began
    events,         \* what the call has done to its surroundings so far:
                    \* calls of func, on_retry, condition_func and time.sleep
    result          \* how the call ended, once pc = "done"

\* A process of the task runner scripts/tasks.py
VARIABLES
    task,           \* the operation the process was started for; "-" when no
                    \* process is running
    step,           \* the place in the command list of the operation
    invoked,        \* the external tools run so far, with their exit codes
    failed,         \* format_check: the local list failed
    exit            \* Running, or how the process ended

\* The report hook of core/conftest.py at work on one test item
VARIABLES
    item,           \* the test item in progress: its name and whether it uses
                    \* the page fixture; NoItem between items
    stage,          \* the phase whose report is made next
    funcargs,       \* the fixtures set up for the item
    screenshots_dir,\* what the path screenshots is on disk
    phases,         \* the phases run so far with their outcome
    shots,          \* calls of page.screenshot made by the hook
    reported        \* what the hook has handed on, report by report

loader_vars == <<files, _instances, _data_cache, objs, handles, last, hist>>

wait_vars == <<pc, params, attempt, current_wait, elapsed, clock, events, result>>

task_vars == <<task, step, invoked, failed, exit>>

report_vars == <<item, stage, funcargs, screenshots_dir, phases, shots, reported>>

\* scripts/validate_yaml.py: one YamlValidator and its run()
VARIABLES
    validating,       \* "-" no validator, "for" in the loop of run, "returned"
    yaml_files,       \* what find_yaml_files() gave, in the order of the loop
    cursor,           \* position in yaml_files of the next turn of the loop
    errors,           \* self.errors
    warnings,         \* self.warnings
    validated_count,  \* self.validated_count
    all_valid,        \* the local all_valid of run
    returned          \* what run() has returned

yaml_vars == <<validating, yaml_files, cursor, errors, warnings, validated_count, all_valid,
               returned>>

\* team_alpha/actions/shopping_actions.py: one ShoppingActions object and
\* the browser page it drives
VARIABLES
    shown,                  \* the page: how many searches it has seen and what
                            \* get_first_product_details() finds on it now
    _current_product_data,  \* self._current_product_data
    _last_product_details,  \* self._last_product_details
    extracted_at,           \* the number of searches the page had seen when
                            \* _last_product_details was extracted (no part of
                            \* the program)
    action                  \* the fluent action that has just ended

shop_vars == <<shown, _current_product_data, _last_product_details, extracted_at, action>>

vars == <<loader_vars, wait_vars, task_vars, report_vars, yaml_vars, shop_vars>>

\* what the operations of one part of the repository leave alone
outside_loader == <<wait_vars, task_vars, report_vars, yaml_vars, shop_vars>>

outside_wait == <<loader_vars, task_vars, report_vars, yaml_vars, shop_vars>>

outside_tasks == <<loader_vars, wait_vars, report_vars, yaml_vars, shop_vars>>

outside_report == <<loader_vars, wait_vars, task_vars, yaml_vars, shop_vars>>

outside_yaml == <<loader_vars, wait_vars, task_vars, report_vars, shop_vars>>

outside_shop == <<loader_vars, wait_vars, task_vars, report_vars, yaml_vars>>

\* ------------------------------------------------------------------------
\* Bounds
\* ------------------------------------------------------------------------
\* loads by construction of the watched class between two of its reloads
MaxParses == 2

\* yaml_file of an object whose __init__ has not bound it
Unbound == "-"

\* Identity of a document object: a positive number; 0 stands for the new {}
\* that the data property makes when the class has no cached document.
NoDoc == 0

Call(op, cls, args, res, obs) ==
    [op |-> op, cls |-> cls, args |-> args, res |-> res, obs |-> obs]

Watching(cls) == [watch |-> cls, parses |-> 0, seen |-> {}, text |-> Absent]

NoHistory == Watching("-")

\* no call has been made, or the caller is done with the result of the last
Idle == Call("idle", "-", <<>>, Return(PyNone), NoDoc)

\* no helper of wait_utils is running
NoWaitCall ==
    /\ pc = "idle"
    /\ params = <<>>
    /\ attempt = 0
    /\ current_wait = 0
    /\ elapsed = 0
    /\ clock = 0
    /\ events = <<>>
    /\ result = Return(PyNone)

\* how a process of the task runner stands or ended: sys.exit(code), or the
\* operation returned to the console script that called it
Running == [how |-> "running"]

SysExit(code) == [how |-> "sys.exit", code |-> code]

Returned == [how |-> "return"]

\* no process of the task runner is running
NoTask ==
    /\ task = "-"
    /\ step = 0
    /\ invoked = <<>>
    /\ failed = <<>>
    /\ exit = Running

NoItem == [name |-> "-", uses_page |-> FALSE]

\* no test item is in progress
NoTestItem ==
    /\ item = NoItem
    /\ stage = "-"
    /\ funcargs = {}
    /\ phases = <<>>
    /\ shots = <<>>
    /\ reported = <<>>

\* no validator has been made
NoValidation ==
    /\ validating = "-"
    /\ yaml_files = <<>>
    /\ cursor = 1
    /\ errors = <<>>
    /\ warnings = <<>>
    /\ validated_count = 0
    /\ all_valid = TRUE
    /\ returned = 0

\* what get_first_product_details() returns: title and price of the first
\* listing, "" and "Price not found" for what it cannot extract
Details(title, price) == [title |-> title, price |-> price]

NoDetails == Details("", "Price not found")

NoAction == [name |-> "-", res |-> Return(PyNone)]

\* ShoppingActions(page, data_loader): the object after __init__, on a page
\* that has seen no search
NewShoppingActions ==
    /\ shown = [search |-> 0, details |-> NoDetails]
    /\ _current_product_data = PyNone
    /\ _last_product_details = PyNone
    /\ extracted_at = 0
    /\ action = NoAction

Init ==
    /\ files \in FileSystems
    /\ _instances = <<>>
    /\ _data_cache = <<>>
    /\ objs = <<>>
    /\ handles = {}
    /\ last = Idle
    /\ hist = NoHistory
    /\ NoWaitCall
    /\ NoTask
    /\ NoTestItem
    /\ NoValidation
    /\ NewShoppingActions
    /\ screenshots_dir = "absent"

\* __init__ that loads at every construction
NeedsLoad_always(cls) == TRUE

\* __init__ that loads only on the object __new__ has just made
NeedsLoad_first_only(cls) == cls \notin DOMAIN _instances

\* __init__ binds and loads only when the class has no cached document
NeedsLoad(cls) == cls \notin DOMAIN _data_cache

\* a document identity that no document still referenced has
FreshId == CHOOSE n \in 1..8 :
              /\ \A t \in DOMAIN _data_cache : _data_cache[t].id # n
              /\ n \notin hist.seen

\* clear() in place of del
Drop_all(f, x) == <<>>

\* del f[x]
Drop(f, x) == [y \in DOMAIN f \ {x} |-> f[y]]

\* f[x] = v
Put(f, x, v) == [y \in DOMAIN f \cup {x} |-> IF y = x THEN v ELSE f[y]]

\* the data property written with setdefault
data_setdefault(cache, cls) ==
    IF cls \in DOMAIN cache
    THEN [id |-> cache[cls].id, val |-> cache[cls].val, cache |-> cache]
    ELSE [id |-> FreshId, val |-> EmptyDict,
          cache |-> Put(cache, cls, [id |-> FreshId, val |-> EmptyDict])]

\* the data property, _data_cache.get(type(self), {}): the document read, its
\* identity, and the cache as the call leaves it
data(cache, cls) ==
    IF cls \in DOMAIN cache
    THEN [id |-> cache[cls].id, val |-> cache[cls].val, cache |-> cache]
    ELSE [id |-> NoDoc, val |-> EmptyDict, cache |-> cache]

\* ------------------------------------------------------------------------
\* _load_data on an object of class cls bound to path: the exception it
\* raises ("none" when it returns), the cache it leaves, and whether
\* safe_load was called.
\* ------------------------------------------------------------------------
\* the try block without `if data is None: data = {}`
load_existing_keeps_none(cache, cls, path) ==
    LET r == safe_load(files[path]) IN
    IF r.exc # "none"
    THEN [exc |-> r.exc, cache |-> cache, parsed |-> TRUE]
    ELSE [exc |-> "none",
          cache |-> Put(cache, cls, [id |-> FreshId, val |-> r.data]),
          parsed |-> TRUE]

\* the try block with a parse failure taken for an empty document
load_existing_absorbs_parse_error(cache, cls, path) ==
    LET r == safe_load(files[path])
        d == IF r.exc # "none" \/ r.data = PyNone THEN EmptyDict ELSE r.data
    IN [exc |-> "none",
        cache |-> Put(cache, cls, [id |-> FreshId, val |-> d]),
        parsed |-> TRUE]

\* the try block: open, safe_load, None becomes {}, store in the cache
load_existing(cache, cls, path) ==
    LET r == safe_load(files[path]) IN
    IF r.exc # "none"
    THEN [exc |-> r.exc, cache |-> cache, parsed |-> TRUE]
    ELSE LET d == IF r.data = PyNone THEN EmptyDict ELSE r.data IN
         [exc |-> "none",
          cache |-> Put(cache, cls, [id |-> FreshId, val |-> d]),
          parsed |-> TRUE]

\* _load_data that takes a missing file for an empty one
_load_data_missing_ok(cache, cls, path) ==
    IF files[path] = Absent
    THEN [exc |-> "none",
          cache |-> Put(cache, cls, [id |-> FreshId, val |-> EmptyDict]),
          parsed |-> FALSE]
    ELSE load_existing(cache, cls, path)

_load_data(cache, cls, path) ==
    IF files[path] = Absent
    THEN [exc |-> "FileNotFoundError", cache |-> cache, parsed |-> FALSE]
    ELSE load_existing(cache, cls, path)

\* __new__ that makes and registers an object at every call
New_always(cls) ==
    [instances |-> Put(_instances, cls, Len(objs) + 1),
     objs |-> Append(objs, [cls |-> cls, yaml_file |-> Unbound])]

\* __new__ that makes and registers an object while the class has no cached
\* document
New_unless_cached(cls) ==
    IF cls \notin DOMAIN _data_cache
    THEN [instances |-> Put(_instances, cls, Len(objs) + 1),
          objs |-> Append(objs, [cls |-> cls, yaml_file |-> Unbound])]
    ELSE [instances |-> _instances, objs |-> objs]

\* __new__: the registry and the objects after cls(...) has got its instance
New(cls) ==
    IF cls \notin DOMAIN _instances
    THEN [instances |-> Put(_instances, cls, Len(objs) + 1),
          objs |-> Append(objs, [cls |-> cls, yaml_file |-> Unbound])]
    ELSE [instances |-> _instances, objs |-> objs]

\* cls(yaml_file): __new__, then __init__ on what __new__ returned; the caller
\* gets the object unless __init__ raises
Construct(cls, yaml_file) ==
    LET nw == New(cls)
        self == nw.instances[cls]
        ld == _load_data(_data_cache, cls, yaml_file)
    IN /\ last = Idle
       /\ _instances' = nw.instances
       /\ UNCHANGED <<files, outside_loader>>
       /\ IF NeedsLoad(cls)
          THEN /\ cls = hist.watch => hist.parses < MaxParses
               /\ objs' = [nw.objs EXCEPT ![self].yaml_file = yaml_file]
               /\ _data_cache' = ld.cache
               /\ hist' = IF cls = hist.watch /\ ld.parsed
                          THEN [hist EXCEPT !.parses = @ + 1]
                          ELSE hist
               /\ handles' = IF ld.exc = "none" THEN handles \cup {self} ELSE handles
               /\ last' = Call("construct", cls, <<yaml_file>>,
                               IF ld.exc = "none" THEN Return(PyInt(self)) ELSE Raise(ld.exc),
                               NoDoc)
          ELSE /\ objs' = nw.objs
               /\ handles' = handles \cup {self}
               /\ last' = Call("construct", cls, <<yaml_file>>, Return(PyInt(self)), NoDoc)
               /\ UNCHANGED <<_data_cache, hist>>

\* reload() that loads only when the class has no cached document
Reload_stale(self) ==
    LET cls == objs[self].cls
        ld == IF cls \in DOMAIN _data_cache
              THEN [exc |-> "none", cache |-> _data_cache, parsed |-> FALSE]
              ELSE _load_data(_data_cache, cls, objs[self].yaml_file)
    IN /\ last = Idle
       /\ _data_cache' = ld.cache
       /\ last' = Call("reload", cls, <<>>,
                       IF ld.exc = "none" THEN Return(PyNone) ELSE Raise(ld.exc), NoDoc)
       /\ hist' = IF cls = hist.watch
                  THEN [Watching(cls) EXCEPT
                           !.text = IF ld.exc = "none" THEN files[objs[self].yaml_file] ELSE Absent]
                  ELSE hist
       /\ UNCHANGED <<files, _instances, objs, handles, outside_loader>>

\* reload() that puts the old document back when the load fails
Reload_keeps_on_failure(self) ==
    LET cls == objs[self].cls
        cleared == IF cls \in DOMAIN _data_cache THEN Drop(_data_cache, cls) ELSE _data_cache
        ld == _load_data(cleared, cls, objs[self].yaml_file)
    IN /\ last = Idle
       /\ _data_cache' = IF ld.exc = "none" THEN ld.cache ELSE _data_cache
       /\ last' = Call("reload", cls, <<>>,
                       IF ld.exc = "none" THEN Return(PyNone) ELSE Raise(ld.exc), NoDoc)
       /\ hist' = IF cls = hist.watch
                  THEN [Watching(cls) EXCEPT
                           !.text = IF ld.exc = "none" THEN files[objs[self].yaml_file] ELSE Absent]
                  ELSE hist
       /\ UNCHANGED <<files, _instances, objs, handles, outside_loader>>

\* self.reload()
Reload(self) ==
    LET cls == objs[self].cls
        cleared == IF cls \in DOMAIN _data_cache THEN Drop(_data_cache, cls) ELSE _data_cache
        ld == _load_data(cleared, cls, objs[self].yaml_file)
    IN /\ last = Idle
       /\ _data_cache' = ld.cache
       /\ last' = Call("reload", cls, <<>>,
                       IF ld.exc = "none" THEN Return(PyNone) ELSE Raise(ld.exc), NoDoc)
       /\ hist' = IF cls = hist.watch
                  THEN [Watching(cls) EXCEPT
                           !.text = IF ld.exc = "none" THEN files[objs[self].yaml_file] ELSE Absent]
                  ELSE hist
       /\ UNCHANGED <<files, _instances, objs, handles, outside_loader>>

\* self.data as a read on object self finds it
DataOf(self) == data(_data_cache, objs[self].cls)

\* a read on object self that gives its caller res
Read(self, op, args, res) ==
    LET cls == objs[self].cls
        d == DataOf(self)
    IN /\ last = Idle
       /\ last' = Call(op, cls, args, res, d.id)
       /\ hist' = IF op = "get_section" /\ cls = hist.watch
                  THEN [hist EXCEPT !.seen = @ \cup {d.id}]
                  ELSE hist
       /\ _data_cache' = d.cache
       /\ UNCHANGED <<files, _instances, objs, handles, outside_loader>>

GetSection(self) ==
    \E s \in SectionArgs :
        Read(self, "get_section", <<s>>, get_section(DataOf(self).val, s))

GetSectionItem(self) ==
    \E s \in SectionArgs, i \in ItemArgs :
        Read(self, "get_section_item", <<s, i>>, get_section_item(DataOf(self).val, s, i))

GetAllSectionItems(self) ==
    \E s \in SectionArgs :
        Read(self, "get_all_section_items", <<s>>, get_all_section_items(DataOf(self).val, s))

ListSections(self) ==
    Read(self, "list_sections", <<>>, list_sections(DataOf(self).val))

ListSectionItems(self) ==
    \E s \in SectionArgs :
        Read(self, "list_section_items", <<s>>, list_section_items(DataOf(self).val, s))

HasSection(self) ==
    \E s \in SectionArgs :
        Read(self, "has_section", <<s>>, has_section(DataOf(self).val, s))

HasItem(self) ==
    \E s \in SectionArgs, i \in ItemArgs :
        Read(self, "has_item", <<s, i>>, has_item(DataOf(self).val, s, i))

GetConfigValue(self) ==
    \E keys \in KeyChains, default \in Defaults :
        Read(self, "get_config_value", keys, get_config_value(DataOf(self).val, keys, default))

\* the environment rewrites, creates or removes an artifact
WriteFile(path, content) ==
    /\ last = Idle
    /\ files[path] # content
    /\ files' = [files EXCEPT ![path] = content]
    /\ UNCHANGED <<_instances, _data_cache, objs, handles, last, hist, outside_loader>>

\* the caller is done with what the call gave it and goes on
Continue ==
    /\ last # Idle
    /\ last' = Idle
    /\ UNCHANGED <<files, _instances, _data_cache, objs, handles, hist, outside_loader>>

Next ==
    \/ \E cls \in Types : \E p \in PathArgs(cls) : Construct(cls, p)
    \/ \E self \in handles : Reload(self)
    \/ \E self \in handles : GetSection(self)
    \/ \E self \in handles : GetSectionItem(self)
    \/ \E self \in handles : GetAllSectionItems(self)
    \/ \E self \in handles : ListSections(self)
    \/ \E self \in handles : ListSectionItems(self)
    \/ \E self \in handles : HasSection(self)
    \/ \E self \in handles : HasItem(self)
    \/ \E self \in handles : GetConfigValue(self)
    \/ \E path \in Paths : \E content \in ContentsAt(path) : WriteFile(path, content)
    \/ Continue

Spec == Init /\ [][Next]_vars

\* the same program, with the history of one class kept
InitWatch ==
    /\ files \in FileSystems
    /\ _instances = <<>>
    /\ _data_cache = <<>>
    /\ objs = <<>>
    /\ handles = {}
    /\ last = Idle
    /\ \E cls \in Types : hist = Watching(cls)
    /\ NoWaitCall
    /\ NoTask
    /\ NoTestItem
    /\ NoValidation
    /\ NewShoppingActions
    /\ screenshots_dir = "absent"

\* the calls the history is about; the other reads differ from these only
\* in what the caller gets
NextWatch ==
    \/ \E cls \in Types : \E p \in PathArgs(cls) : Construct(cls, p)
    \/ \E self \in handles : Reload(self)
    \/ \E self \in handles : GetSection(self)
    \/ \E self \in handles : GetSectionItem(self)
    \/ \E self \in handles : ListSections(self)
    \/ \E self \in handles : HasSection(self)
    \/ \E path \in Paths : \E content \in ContentsAt(path) : WriteFile(path, content)
    \/ Continue

SpecWatch == InitWatch /\ [][NextWatch]_vars

\* ------------------------------------------------------------------------
\* core/utils/wait_utils.py: wait_with_retry, the wrapper that
\* retry_on_exception makes, and wait_for_condition. A call goes from one
\* call of its surroundings (func, on_retry, condition_func, time.sleep) to
\* the next; pc tells which one comes next. Times are whole ticks.
\* Exceptions raised by func, on_retry and condition_func are instances of
\* Exception.
\* ------------------------------------------------------------------------
\* the exception classes func and condition_func raise, and their bases
ExceptionClasses == {"ValueError", "KeyError"}

Bases(cls) == {cls, "Exception"}

\* the exceptions argument: the default (Exception,) and a narrower tuple
ExceptionsArgs == {{"Exception"}, {"ValueError"}}

MaxAttemptsArgs == -1..3

WaitTimeArgs == {1, 3}

TimeoutArgs == {0, 2, 3}

PollIntervalArgs == {1, 2}

\* ticks a call of condition_func takes, and ticks time.sleep oversleeps
Durations == {0, 1}

\* the exception object of class cls raised by the n-th call of func
ExcObj(cls, n) == [exc |-> cls, at |-> n]

\* the n-th call of func returns a value of its own or raises
FuncOutcomes(n) == {Return(PyInt(n))} \cup {ExcObj(c, n) : c \in ExceptionClasses}

\* on_retry(attempt, e) returns or raises
CallbackOutcomes == {Return(PyNone), Raise("RuntimeError")}

\* condition_func() returns something true or false, or raises
ConditionOutcomes ==
    {Return(PyBool(TRUE)), Return(PyBool(FALSE)), Return(PyInt(1)), Raise("ValueError")}

\* truth value of what `if condition_func():` tests
Truthy(v) ==
    CASE v.k = "bool" -> v.b
      [] v.k = "int" -> v.n # 0
      [] v.k = "none" -> FALSE
      [] OTHER -> TRUE

FuncEvent(n, out) == [ev |-> "func", attempt |-> n, out |-> out]

OnRetryEvent(n, e, out) == [ev |-> "on_retry", attempt |-> n, e |-> e, out |-> out]

SleepEvent(secs) == [ev |-> "sleep", secs |-> secs]

ConditionEvent(at, out) == [ev |-> "condition_func", elapsed |-> at, out |-> out]

\* the calls of func among the events
FuncCalls == SelectSeq(events, LAMBDA x : x.ev = "func")

\* an except clause that catches everything
catches_everything(exceptions, e) == TRUE

\* `except exceptions as e` catches e
catches(exceptions, e) == exceptions \cap Bases(e.exc) # {}

\* the last-attempt test that is off by one
is_last_attempt_late(n, max_attempts) == n = max_attempts + 1

\* `if attempt == max_attempts`
is_last_attempt(n, max_attempts) == n = max_attempts

\* the arguments of wait_with_retry(func, ...)
WaitWithRetryArgs ==
    [fn : {"wait_with_retry"}, max_attempts : MaxAttemptsArgs, wait_time : WaitTimeArgs,
     exponential_backoff : BOOLEAN, exceptions : ExceptionsArgs,
     on_retry : {"none", "given"}]

\* the arguments of retry_on_exception(...); the wrapper has no on_retry
RetryOnExceptionArgs ==
    [fn : {"retry_on_exception"}, max_attempts : MaxAttemptsArgs, wait_time : WaitTimeArgs,
     exponential_backoff : BOOLEAN, exceptions : ExceptionsArgs,
     on_retry : {"none"}]

\* entry of the for loop over range(1, max_attempts + 1): the first attempt,
\* or the end of the function body when the range is empty
EnterLoop(p) ==
    /\ pc = "idle"
    /\ params' = p
    /\ current_wait' = p.wait_time
    /\ clock' = 0
    /\ events' = <<>>
    /\ elapsed' = 0
    /\ IF 1 <= p.max_attempts
       THEN /\ attempt' = 1
            /\ pc' = "func"
            /\ result' = Return(PyNone)
       ELSE /\ attempt' = 0
            /\ pc' = "done"
            /\ result' = Return(PyNone)
    /\ UNCHANGED outside_wait

wait_with_retry(p) == EnterLoop(p)

\* a call of the function that retry_on_exception(...)(func) returns
wrapper(p) == EnterLoop(p)

\* the try statement of one attempt: func() and what its outcome leads to
Attempt ==
    /\ pc = "func"
    /\ \E out \in FuncOutcomes(Len(FuncCalls) + 1) :
          /\ events' = Append(events, FuncEvent(attempt, out))
          /\ IF out.exc = "none"
             THEN pc' = "done" /\ result' = out
             ELSE IF ~catches(params.exceptions, out)
             THEN pc' = "done" /\ result' = out
             ELSE IF is_last_attempt(attempt, params.max_attempts)
             THEN pc' = "done" /\ result' = out
             ELSE /\ pc' = IF params.on_retry # "none" THEN "on_retry" ELSE "sleep"
                  /\ result' = out
    /\ UNCHANGED <<params, attempt, current_wait, elapsed, clock, outside_wait>>

\* on_retry(attempt, e) without the try / except Exception around it
OnRetry_unprotected ==
    /\ pc = "on_retry"
    /\ \E out \in CallbackOutcomes :
          /\ events' = Append(events, OnRetryEvent(attempt, result, out))
          /\ IF out.exc = "none"
             THEN pc' = "sleep" /\ UNCHANGED result
             ELSE pc' = "done" /\ result' = out
    /\ UNCHANGED <<params, attempt, current_wait, elapsed, clock, outside_wait>>

\* on_retry(attempt, e) inside try / except Exception
OnRetry ==
    /\ pc = "on_retry"
    /\ \E out \in CallbackOutcomes :
          events' = Append(events, OnRetryEvent(attempt, result, out))
    /\ pc' = "sleep"
    /\ UNCHANGED <<params, attempt, current_wait, elapsed, clock, result, outside_wait>>

\* the backoff applied before time.sleep instead of after it
Sleep_after_backoff ==
    LET w == IF params.exponential_backoff THEN current_wait * 2 ELSE current_wait IN
    /\ pc = "sleep"
    /\ events' = Append(events, SleepEvent(w))
    /\ clock' = clock + w
    /\ current_wait' = w
    /\ IF attempt + 1 <= params.max_attempts
       THEN /\ attempt' = attempt + 1
            /\ pc' = "func"
            /\ UNCHANGED result
       ELSE /\ pc' = "done"
            /\ result' = Return(PyNone)
            /\ UNCHANGED attempt
    /\ UNCHANGED <<params, elapsed, outside_wait>>

\* time.sleep(current_wait), the backoff, and the next turn of the for loop
Sleep ==
    /\ pc = "sleep"
    /\ events' = Append(events, SleepEvent(current_wait))
    /\ clock' = clock + current_wait
    /\ current_wait' = IF params.exponential_backoff THEN current_wait * 2 ELSE current_wait
    /\ IF attempt + 1 <= params.max_attempts
       THEN /\ attempt' = attempt + 1
            /\ pc' = "func"
            /\ UNCHANGED result
       ELSE /\ pc' = "done"
            /\ result' = Return(PyNone)
            /\ UNCHANGED attempt
    /\ UNCHANGED <<params, elapsed, outside_wait>>

\* start_time = time.time(): the clock counts from the start of the call
start_time == 0

WaitForConditionArgs ==
    [fn : {"wait_for_condition"}, timeout : TimeoutArgs, poll_interval : PollIntervalArgs,
     suppress_errors : BOOLEAN]

wait_for_condition(p) ==
    /\ pc = "idle"
    /\ params' = p
    /\ clock' = start_time
    /\ elapsed' = 0
    /\ events' = <<>>
    /\ pc' = "while"
    /\ UNCHANGED <<attempt, current_wait, result, outside_wait>>

\* what get_value_func() gives: the value observed at that moment, or an
\* exception
ValueOutcomes == {Return(PyInt(1)), Return(PyInt(2)), Raise("ValueError")}

GetValueEvent(out) == [ev |-> "get_value_func", out |-> out]

\* the nested function condition of wait_for_value_change, on what its call
\* of get_value_func gave
condition(got, initial_value) ==
    IF got.exc # "none" THEN got ELSE Return(PyBool(got.ret # initial_value))

\* a call of condition_func: what it gives and what it does on the way.
\* wait_for_condition is given any condition_func, wait_for_value_change
\* passes its nested function condition.
ConditionCalls ==
    IF params.fn = "wait_for_value_change"
    THEN {[out |-> condition(got, params.initial_value), events |-> <<GetValueEvent(got)>>] :
             got \in ValueOutcomes}
    ELSE {[out |-> out, events |-> <<>>] : out \in ConditionOutcomes}

\* where a `return True` of wait_for_condition leads: to the caller, or back
\* into wait_for_value_change
ReturnTo == IF params.fn = "wait_for_value_change" THEN "new_value" ELSE "done"

\* the loop test that lets a poll at elapsed = timeout through
loop_test_inclusive(e, timeout) == e <= timeout

\* `while elapsed < timeout`
loop_test(e, timeout) == e < timeout

\* one turn of the while loop up to time.sleep: the call of condition_func
Poll ==
    /\ pc = "while"
    /\ loop_test(elapsed, params.timeout)
    /\ \E c \in ConditionCalls, d \in Durations :
          LET out == c.out IN
          /\ events' = Append(events \o c.events, ConditionEvent(elapsed, out))
          /\ clock' = clock + d
          /\ IF out.exc = "none"
             THEN IF Truthy(out.ret)
                  THEN pc' = ReturnTo /\ result' = Return(PyBool(TRUE))
                  ELSE pc' = "poll_sleep" /\ UNCHANGED result
             ELSE IF ~params.suppress_errors
                  THEN pc' = "done" /\ result' = out
                  ELSE pc' = "poll_sleep" /\ UNCHANGED result
    /\ UNCHANGED <<params, attempt, current_wait, elapsed, outside_wait>>

\* time.sleep(poll_interval); elapsed = time.time() - start_time
PollSleep ==
    /\ pc = "poll_sleep"
    /\ \E d \in Durations :
          /\ clock' = clock + params.poll_interval + d
          /\ elapsed' = clock' - start_time
    /\ events' = Append(events, SleepEvent(params.poll_interval))
    /\ pc' = "while"
    /\ UNCHANGED <<params, attempt, current_wait, result, outside_wait>>

\* the loop has ended: raise TimeoutError
TimedOut ==
    /\ pc = "while"
    /\ ~loop_test(elapsed, params.timeout)
    /\ pc' = "done"
    /\ result' = Raise("TimeoutError")
    /\ UNCHANGED <<params, attempt, current_wait, elapsed, clock, events, outside_wait>>

WaitForValueChangeArgs ==
    [fn : {"wait_for_value_change"}, initial_value : {PyNone, PyInt(1)},
     timeout : TimeoutArgs, poll_interval : PollIntervalArgs, suppress_errors : {TRUE}]

\* entry of wait_for_value_change: `if initial_value is None`
wait_for_value_change(p) ==
    /\ pc = "idle"
    /\ params' = p
    /\ clock' = start_time
    /\ elapsed' = 0
    /\ events' = <<>>
    /\ pc' = IF p.initial_value = PyNone THEN "initial_value" ELSE "while"
    /\ UNCHANGED <<attempt, current_wait, result, outside_wait>>

\* initial_value = get_value_func(), then the call of wait_for_condition
FetchInitialValue ==
    /\ pc = "initial_value"
    /\ \E got \in ValueOutcomes :
          /\ events' = Append(events, GetValueEvent(got))
          /\ IF got.exc # "none"
             THEN pc' = "done" /\ result' = got /\ UNCHANGED params
             ELSE /\ pc' = "while"
                  /\ params' = [params EXCEPT !.initial_value = got.ret]
                  /\ UNCHANGED result
    /\ UNCHANGED <<attempt, current_wait, elapsed, clock, outside_wait>>

\* `return get_value_func()` after wait_for_condition has returned
ReturnNewValue ==
    /\ pc = "new_value"
    /\ \E got \in ValueOutcomes :
          /\ events' = Append(events, GetValueEvent(got))
          /\ result' = got
    /\ pc' = "done"
    /\ UNCHANGED <<params, attempt, current_wait, elapsed, clock, outside_wait>>

\* ------------------------------------------------------------------------
\* retry_with_timeout
\* ------------------------------------------------------------------------
RetryWithTimeoutArgs ==
    [fn : {"retry_with_timeout"}, timeout : TimeoutArgs, retry_interval : PollIntervalArgs,
     exceptions : ExceptionsArgs]

\* a call of func by retry_with_timeout, made at tick `at`
TimedFuncEvent(n, at, out) == [ev |-> "func", attempt |-> n, at |-> at, out |-> out]

\* time.sleep(secs) with `remaining` ticks left of the timeout
TimedSleepEvent(secs, remaining) == [ev |-> "sleep", secs |-> secs, remaining |-> remaining]

retry_with_timeout(p) ==
    /\ pc = "idle"
    /\ params' = p
    /\ clock' = start_time
    /\ attempt' = 0
    /\ elapsed' = 0
    /\ events' = <<>>
    /\ pc' = "timed_while"
    /\ UNCHANGED <<current_wait, result, outside_wait>>

\* time.sleep(retry_interval) whatever remains
sleep_length_full(retry_interval, remaining) == retry_interval

\* min(retry_interval, remaining)
sleep_length(retry_interval, remaining) ==
    IF retry_interval <= remaining THEN retry_interval ELSE remaining

\* one turn of `while time.time() - start_time < timeout` up to time.sleep
TimedAttempt ==
    /\ pc = "timed_while"
    /\ clock - start_time < params.timeout
    /\ attempt' = attempt + 1
    /\ \E out \in FuncOutcomes(attempt + 1), d \in Durations :
          /\ events' = Append(events, TimedFuncEvent(attempt + 1, clock - start_time, out))
          /\ clock' = clock + d
          /\ IF out.exc = "none" \/ ~catches(params.exceptions, out)
             THEN pc' = "done" /\ result' = out /\ UNCHANGED elapsed
             ELSE /\ elapsed' = clock' - start_time
                  /\ IF params.timeout - elapsed' <= 0
                     THEN pc' = "done" /\ result' = Raise("TimeoutError")
                     ELSE pc' = "timed_sleep" /\ UNCHANGED result
    /\ UNCHANGED <<params, current_wait, outside_wait>>

\* time.sleep(min(retry_interval, remaining))
TimedSleep ==
    LET remaining == params.timeout - elapsed
        secs == sleep_length(params.retry_interval, remaining)
    IN /\ pc = "timed_sleep"
       /\ events' = Append(events, TimedSleepEvent(secs, remaining))
       /\ \E d \in Durations : clock' = clock + secs + d
       /\ pc' = "timed_while"
       /\ UNCHANGED <<params, attempt, current_wait, elapsed, result, outside_wait>>

\* the while loop of retry_with_timeout has ended: raise TimeoutError
TimedGiveUp ==
    /\ pc = "timed_while"
    /\ ~(clock - start_time < params.timeout)
    /\ pc' = "done"
    /\ result' = Raise("TimeoutError")
    /\ UNCHANGED <<params, attempt, current_wait, elapsed, clock, events, outside_wait>>

\* the caller has the outcome of the call and may make another
Finish ==
    /\ pc = "done"
    /\ pc' = "idle"
    /\ params' = <<>>
    /\ attempt' = 0
    /\ current_wait' = 0
    /\ elapsed' = 0
    /\ clock' = 0
    /\ events' = <<>>
    /\ result' = Return(PyNone)
    /\ UNCHANGED outside_wait

InitWaitUtils ==
    /\ files = [p \in Paths |-> Absent]
    /\ _instances = <<>>
    /\ _data_cache = <<>>
    /\ objs = <<>>
    /\ handles = {}
    /\ last = Idle
    /\ hist = NoHistory
    /\ NoWaitCall
    /\ NoTask
    /\ NoTestItem
    /\ NoValidation
    /\ NewShoppingActions
    /\ screenshots_dir = "absent"

NextWaitUtils ==
    \/ \E p \in WaitWithRetryArgs : wait_with_retry(p)
    \/ \E p \in RetryOnExceptionArgs : wrapper(p)
    \/ Attempt
    \/ OnRetry
    \/ Sleep
    \/ \E p \in WaitForConditionArgs : wait_for_condition(p)
    \/ Poll
    \/ PollSleep
    \/ TimedOut
    \/ \E p \in WaitForValueChangeArgs : wait_for_value_change(p)
    \/ FetchInitialValue
    \/ ReturnNewValue
    \/ \E p \in RetryWithTimeoutArgs : retry_with_timeout(p)
    \/ TimedAttempt
    \/ TimedSleep
    \/ TimedGiveUp
    \/ Finish

SpecWaitUtils == InitWaitUtils /\ [][NextWaitUtils]_vars

\* ------------------------------------------------------------------------
\* scripts/tasks.py: the operations that run external tools. A process is
\* started for one operation, runs the tools of the operation one by one,
\* and ends with sys.exit(code) or by returning from the operation.
\* ------------------------------------------------------------------------
ExitCodes == {0, 1, 2}

\* run_command as a 0/1 flag of failure
run_command_as_flag(returncode) == IF returncode = 0 THEN 0 ELSE 1

\* run_command(cmd): subprocess.run(...).returncode
run_command(returncode) == returncode

\* the operations written as sys.exit(run_command(cmd))
SingleCommand ==
    [lint |-> "poetry run ruff check .",
     lint_fix |-> "poetry run ruff check --fix .",
     validate_yaml |-> "poetry run python scripts/validate_yaml.py",
     test_all |-> "poetry run pytest -v",
     test_api |-> "poetry run pytest team_alpha/tests/api/ -v",
     test_web |-> "poetry run pytest team_alpha/tests/web/ -v",
     test_web_headed |-> "poetry run pytest team_alpha/tests/web/ --headed -v",
     test_smoke |-> "poetry run pytest -m smoke -v",
     test_parallel |-> "poetry run pytest -v -n auto",
     test_api_parallel |-> "poetry run pytest team_alpha/tests/api/ -v -n auto",
     test_web_parallel |-> "poetry run pytest team_alpha/tests/web/ -v -n auto",
     test_smoke_parallel |-> "poetry run pytest -m smoke -v -n auto",
     pre_commit |-> "poetry run pre-commit run --all-files",
     pre_commit_update |-> "poetry run pre-commit autoupdate"]

SingleOps == DOMAIN SingleCommand

\* the list commands of format_code
format_commands ==
    <<"poetry run isort .", "poetry run black .", "poetry run ruff check --fix .",
      "poetry run python scripts/validate_yaml.py">>

\* the list commands of format_check
format_check_commands ==
    <<[name |-> "isort", cmd |-> "poetry run isort --check-only ."],
      [name |-> "black", cmd |-> "poetry run black --check ."],
      [name |-> "ruff", cmd |-> "poetry run ruff check ."]>>

Operations == SingleOps \cup {"format_code", "format_check", "install_hooks", "pr_ready"}

Invocation(cmd, code) == [cmd |-> cmd, code |-> code]

\* `poetry run <operation>` starts a process
StartTask(op) ==
    /\ task = "-"
    /\ task' = op
    /\ step' = 1
    /\ invoked' = <<>>
    /\ failed' = <<>>
    /\ exit' = Running
    /\ UNCHANGED outside_tasks

\* lint, lint_fix, validate_yaml, test_*, pre_commit, pre_commit_update
RunSingle ==
    /\ task \in SingleOps /\ exit = Running
    /\ \E code \in ExitCodes :
          /\ invoked' = Append(invoked, Invocation(SingleCommand[task], code))
          /\ exit' = SysExit(run_command(code))
    /\ UNCHANGED <<task, step, failed, outside_tasks>>

install_hooks ==
    /\ task = "install_hooks" /\ exit = Running
    /\ \E code \in ExitCodes :
          /\ invoked' = Append(invoked, Invocation("poetry run pre-commit install", code))
          /\ exit' = IF run_command(code) = 0 THEN Returned ELSE SysExit(run_command(code))
    /\ UNCHANGED <<task, step, failed, outside_tasks>>

\* format_code that goes on to the next command whatever the exit code
format_code_ungated ==
    /\ task \in {"format_code", "pr_ready"} /\ exit = Running
    /\ step <= Len(format_commands)
    /\ \E code \in ExitCodes :
          /\ invoked' = Append(invoked, Invocation(format_commands[step], code))
          /\ step' = step + 1
          /\ exit' = IF task = "format_code" /\ step = Len(format_commands)
                     THEN (IF run_command(code) # 0 THEN SysExit(run_command(code)) ELSE Returned)
                     ELSE Running
    /\ UNCHANGED <<task, failed, outside_tasks>>

\* one turn of the for loop of format_code, called for format or by pr_ready
format_code ==
    /\ task \in {"format_code", "pr_ready"} /\ exit = Running
    /\ step <= Len(format_commands)
    /\ \E code \in ExitCodes :
          /\ invoked' = Append(invoked, Invocation(format_commands[step], code))
          /\ IF run_command(code) # 0
             THEN exit' = SysExit(run_command(code)) /\ UNCHANGED step
             ELSE /\ step' = step + 1
                  /\ exit' = IF task = "format_code" /\ step = Len(format_commands)
                             THEN Returned ELSE Running
    /\ UNCHANGED <<task, failed, outside_tasks>>

\* pr_ready after format_code() has returned: the test run
pr_ready ==
    /\ task = "pr_ready" /\ exit = Running
    /\ step = Len(format_commands) + 1
    /\ \E code \in ExitCodes :
          /\ invoked' = Append(invoked, Invocation("poetry run pytest -v", code))
          /\ exit' = IF run_command(code) # 0 THEN SysExit(run_command(code)) ELSE Returned
    /\ UNCHANGED <<task, step, failed, outside_tasks>>

\* one turn of the for loop of format_check, and after the last the verdict
format_check ==
    /\ task = "format_check" /\ exit = Running
    /\ step <= Len(format_check_commands)
    /\ \E code \in ExitCodes :
          LET c == format_check_commands[step]
              now_failed == IF run_command(code) # 0 THEN Append(failed, c.name) ELSE failed
          IN /\ invoked' = Append(invoked, Invocation(c.cmd, code))
             /\ failed' = now_failed
             /\ step' = step + 1
             /\ exit' = IF step < Len(format_check_commands) THEN Running
                        ELSE IF now_failed # <<>> THEN SysExit(1) ELSE Returned
    /\ UNCHANGED <<task, outside_tasks>>

\* the process is over
TaskOver ==
    /\ exit # Running
    /\ task' = "-"
    /\ step' = 0
    /\ invoked' = <<>>
    /\ failed' = <<>>
    /\ exit' = Running
    /\ UNCHANGED outside_tasks

InitTasks == InitWaitUtils

NextTasks ==
    \/ \E op \in Operations : StartTask(op)
    \/ RunSingle
    \/ install_hooks
    \/ format_code
    \/ pr_ready
    \/ format_check
    \/ TaskOver

SpecTasks == InitTasks /\ [][NextTasks]_vars

\* ------------------------------------------------------------------------
\* core/conftest.py: the report hook pytest_runtest_makereport. The test
\* runner takes an item through setup, call (when setup passed) and
\* teardown, and makes one report per phase; the hook wraps the making of
\* each report.
\* ------------------------------------------------------------------------
Items == [name : {"test_a", "test_b"}, uses_page : BOOLEAN]

PhaseOutcomes(when) ==
    IF when = "teardown" THEN {"passed", "failed"} ELSE {"passed", "failed", "skipped"}

\* what the path screenshots can be: nothing, a directory, or a regular file
DirStates == {"absent", "dir", "file"}

Report(it, when, outcome) ==
    [nodeid |-> it.name, when |-> when, outcome |-> outcome]

\* an exception has left the hook in place of the report
HookRaised(e) == [raised |-> e]

\* page.screenshot(path=..., full_page=True): done after `before` reports of
\* the item had been handed on
Shot(path, out, before) ==
    [path |-> path, full_page |-> TRUE, out |-> out, before |-> before]

\* page.screenshot returns or raises
ShotOutcomes == {"saved", "Error"}

\* f"{screenshot_dir}/failure_{item.name}.png"
screenshot_path(it) == <<"screenshots", "/failure_", it.name, ".png">>

\* the fixtures in item.funcargs once the setup phase has ended
FuncargsAfterSetup(it, outcome) ==
    IF ~it.uses_page THEN {{}}
    ELSE IF outcome = "passed" THEN {{"page"}}
    ELSE {{}, {"page"}}

\* the phase that follows
NextStage(when, outcome) ==
    CASE when = "setup" -> IF outcome = "passed" THEN "call" ELSE "teardown"
      [] when = "call" -> "teardown"
      [] when = "teardown" -> "over"

\* the runner starts on an item
StartItem(it) ==
    /\ item = NoItem
    /\ item' = it
    /\ stage' = "setup"
    /\ funcargs' = {}
    /\ phases' = <<>>
    /\ shots' = <<>>
    /\ reported' = <<>>
    /\ UNCHANGED <<screenshots_dir, outside_report>>

\* the conditions under which the hook goes for a screenshot
wants_screenshot(rep, it, fa) ==
    /\ rep.when = "call" /\ rep.outcome = "failed"
    /\ it.uses_page
    /\ "page" \in fa

\* the hook around the report of one phase: the code after `outcome = yield`
pytest_runtest_makereport(when, outcome) ==
    LET rep == Report(item, when, outcome) IN
    /\ stage = when
    /\ phases' = Append(phases, rep)
    /\ \E fa \in (IF when = "setup" THEN FuncargsAfterSetup(item, outcome) ELSE {funcargs}) :
          funcargs' = fa
    /\ IF wants_screenshot(rep, item, funcargs)
       THEN IF screenshots_dir = "file"
            THEN \* os.makedirs raises FileExistsError, outside the try
                 /\ reported' = Append(reported, HookRaised("FileExistsError"))
                 /\ stage' = "aborted"
                 /\ UNCHANGED <<shots, screenshots_dir>>
            ELSE /\ screenshots_dir' = "dir"
                 /\ \E out \in ShotOutcomes :
                       shots' = Append(shots, Shot(screenshot_path(item), out, Len(reported)))
                 /\ reported' = Append(reported, rep)
                 /\ stage' = NextStage(when, outcome)
       ELSE /\ reported' = Append(reported, rep)
            /\ stage' = NextStage(when, outcome)
            /\ UNCHANGED <<shots, screenshots_dir>>
    /\ UNCHANGED <<item, outside_report>>

\* the runner is done with the item
EndItem ==
    /\ stage \in {"over", "aborted"}
    /\ item' = NoItem
    /\ stage' = "-"
    /\ funcargs' = {}
    /\ phases' = <<>>
    /\ shots' = <<>>
    /\ reported' = <<>>
    /\ UNCHANGED <<screenshots_dir, outside_report>>

InitReport ==
    /\ files = [p \in Paths |-> Absent]
    /\ _instances = <<>>
    /\ _data_cache = <<>>
    /\ objs = <<>>
    /\ handles = {}
    /\ last = Idle
    /\ hist = NoHistory
    /\ NoWaitCall
    /\ NoTask
    /\ NoTestItem
    /\ NoValidation
    /\ NewShoppingActions
    /\ screenshots_dir \in DirStates

NextReport ==
    \/ \E it \in Items : StartItem(it)
    \/ \E when \in {"setup", "call", "teardown"} : \E outcome \in PhaseOutcomes(when) :
          pytest_runtest_makereport(when, outcome)
    \/ EndItem

SpecReport == InitReport /\ [][NextReport]_vars

\* ------------------------------------------------------------------------
\* scripts/validate_yaml.py: YamlValidator. A file of a test_data directory
\* is what open() and read() give for it: whether it can be read, whether
\* its content is blank, the YAML text, and the leading spaces of its lines.
\* ------------------------------------------------------------------------
MaxFiles == 2

YamlFile(readable, blank, text, indents) ==
    [readable |-> readable, blank |-> blank, text |-> text, indents |-> indents]

YamlFiles ==
    {YamlFile(FALSE, FALSE, MalformedText, <<>>),
     YamlFile(TRUE, TRUE, EmptyText, <<>>),
     YamlFile(TRUE, FALSE, EmptyText, <<0>>),
     YamlFile(TRUE, FALSE, MalformedText, <<0, 3>>),
     YamlFile(TRUE, FALSE, DocA, <<0, 2, 4, 4, 4, 0, 2>>),
     YamlFile(TRUE, FALSE, DocA, <<0, 3, 6, 6, 6, 0, 3>>),
     YamlFile(TRUE, FALSE, DocB, <<0, 0, 0>>)}

\* find_yaml_files(): the files found, in some order
FoundFiles == UNION {[1..n -> YamlFiles] : n \in 0..MaxFiles}

\* what a check has done: its return value and what it has appended to
\* self.errors and to self.warnings
Checked(ok, errs, warns) == [ok |-> ok, errors |-> errs, warnings |-> warns]

validate_syntax(f) ==
    IF ~f.readable THEN Checked(FALSE, <<"Error reading file">>, <<>>)
    ELSE IF f.blank THEN Checked(TRUE, <<>>, <<"File is empty">>)
    ELSE IF safe_load(f.text).exc # "none" THEN Checked(FALSE, <<"YAML syntax error">>, <<>>)
    ELSE Checked(TRUE, <<>>, <<>>)

\* one warning for each line whose indentation is not a multiple of 2
check_indentation(f) ==
    IF ~f.readable THEN Checked(TRUE, <<>>, <<"Could not check indentation">>)
    ELSE LET lines == [i \in 1..Len(f.indents) |-> [line |-> i, spaces |-> f.indents[i]]]
             odd == SelectSeq(lines, LAMBDA l : l.spaces > 0 /\ l.spaces % 2 # 0)
         IN Checked(odd = <<>>, <<>>, odd)

\* the constructor check_duplicates of DuplicateKeyLoader raises
\* ConstructorError for the node or for a node below it
RECURSIVE check_duplicates(_)
check_duplicates(node) ==
    /\ node.k = "map"
    /\ \/ \E j \in 1..Len(node.e) : \E i \in 1..(j - 1) : node.e[i].key = node.e[j].key
       \/ \E i \in 1..Len(node.e) : check_duplicates(node.e[i].val)

\* check_duplicate_keys whose custom check always falls back
check_duplicate_keys_fallback(f) == Checked(TRUE, <<>>, <<>>)

check_duplicate_keys(f) ==
    IF ~f.readable \/ f.blank \/ ~f.text.wf THEN Checked(TRUE, <<>>, <<>>)
    ELSE IF check_duplicates(f.text.node) THEN Checked(FALSE, <<"Duplicate key found">>, <<>>)
    ELSE Checked(TRUE, <<>>, <<>>)

\* the entries of self.errors and self.warnings: (file_path, message)
About(i, msgs) == [j \in 1..Len(msgs) |-> [file |-> i, msg |-> msgs[j]]]

\* YamlValidator(project_root).run() up to the for loop
run(found) ==
    /\ validating = "-"
    /\ yaml_files' = found
    /\ cursor' = 1
    /\ errors' = <<>>
    /\ warnings' = <<>>
    /\ validated_count' = 0
    /\ all_valid' = TRUE
    /\ IF found = <<>>
       THEN validating' = "returned" /\ returned' = 0
       ELSE validating' = "for" /\ UNCHANGED returned
    /\ UNCHANGED outside_yaml

\* one turn of the for loop of run: validate_file(yaml_file)
validate_file ==
    /\ validating = "for" /\ cursor <= Len(yaml_files)
    /\ LET f == yaml_files[cursor]
           syntax == validate_syntax(f)
           indentation == check_indentation(f)
           duplicates == check_duplicate_keys(f)
       IN IF ~syntax.ok
          THEN /\ errors' = errors \o About(cursor, syntax.errors)
               /\ warnings' = warnings \o About(cursor, syntax.warnings)
               /\ all_valid' = FALSE
               /\ UNCHANGED validated_count
          ELSE /\ errors' = errors \o About(cursor, syntax.errors \o duplicates.errors)
               /\ warnings' = warnings \o About(cursor, syntax.warnings \o indentation.warnings)
               /\ validated_count' = validated_count + 1
               /\ all_valid' = (all_valid /\ duplicates.ok)
    /\ cursor' = cursor + 1
    /\ UNCHANGED <<validating, yaml_files, returned, outside_yaml>>

\* run after the for loop: the summary and the final result
Summary ==
    /\ validating = "for" /\ cursor > Len(yaml_files)
    /\ validating' = "returned"
    /\ returned' = IF all_valid THEN 0 ELSE 1
    /\ UNCHANGED <<yaml_files, cursor, errors, warnings, validated_count, all_valid, outside_yaml>>

\* main: sys.exit(exit_code) ends the process
ValidatorExit ==
    /\ validating = "returned"
    /\ validating' = "-"
    /\ yaml_files' = <<>>
    /\ cursor' = 1
    /\ errors' = <<>>
    /\ warnings' = <<>>
    /\ validated_count' = 0
    /\ all_valid' = TRUE
    /\ returned' = 0
    /\ UNCHANGED outside_yaml

InitValidator == InitWaitUtils

NextValidator ==
    \/ \E found \in FoundFiles : run(found)
    \/ validate_file
    \/ Summary
    \/ ValidatorExit

SpecValidator == InitValidator /\ [][NextValidator]_vars

\* ------------------------------------------------------------------------
\* team_alpha/actions/shopping_actions.py: ShoppingActions. The page steps
\* of a search succeed; what the results page lists is up to the site.
\* ------------------------------------------------------------------------
MaxSearches == 3

ProductDetails == {Details(t, pr) : t \in {"", "Widget A"}, pr \in {"Price not found", "$10"}}

ProductKeys == {"widget_a", "nosuch"}

KeywordArgs == {<<>>, <<"Widget A">>, <<"nosuch">>}

\* self.data_loader(product_key)
data_loader(product_key) ==
    IF product_key = "widget_a" THEN Return(PyStr("widget a")) ELSE Raise("KeyError")

\* str.lower()
lower(str) == IF str = "Widget A" THEN "widget a" ELSE str

\* self.shopping_page.get_first_product_details()
get_first_product_details == shown.details

\* the browser after the page steps of a search: a new results page
ResultsPage(details) == [search |-> shown.search + 1, details |-> details]

ActionEnded(name, res) == [name |-> name, res |-> res]

\* the two asserts of verify_product_details_valid
details_valid(details) ==
    IF details.price = "Price not found" \/ details.title = ""
    THEN Raise("AssertionError") ELSE Return(PyNone)

search_for_product(product_key) ==
    /\ shown.search < MaxSearches
    /\ LET loaded == data_loader(product_key) IN
       IF loaded.exc # "none"
       THEN /\ action' = ActionEnded("search_for_product", loaded)
            /\ UNCHANGED <<shown, _current_product_data>>
       ELSE /\ _current_product_data' = loaded.ret
            /\ \E details \in ProductDetails : shown' = ResultsPage(details)
            /\ action' = ActionEnded("search_for_product", Return(PyNone))
    /\ UNCHANGED <<_last_product_details, extracted_at, outside_shop>>

search_for_product_by_term ==
    /\ shown.search < MaxSearches
    /\ \E details \in ProductDetails : shown' = ResultsPage(details)
    /\ action' = ActionEnded("search_for_product_by_term", Return(PyNone))
    /\ UNCHANGED <<_current_product_data, _last_product_details, extracted_at, outside_shop>>

\* the assert on get_product_count() holds or not
verify_search_results ==
    /\ \E enough \in BOOLEAN :
          action' = ActionEnded("verify_search_results",
                          IF enough THEN Return(PyNone) ELSE Raise("AssertionError"))
    /\ UNCHANGED <<shown, _current_product_data, _last_product_details, extracted_at,
                   outside_shop>>

verify_product_contains_keywords(keywords) ==
    LET details == get_first_product_details
        missing_keywords ==
            SelectSeq(keywords, LAMBDA k : ~IsSubstring(lower(k), lower(details.title)))
    IN /\ _last_product_details' = details
       /\ extracted_at' = shown.search
       /\ action' = ActionEnded("verify_product_contains_keywords",
                          IF missing_keywords # <<>> THEN Raise("AssertionError")
                          ELSE Return(PyNone))
       /\ UNCHANGED <<shown, _current_product_data, outside_shop>>

extract_and_verify_price ==
    /\ action' = ActionEnded("extract_and_verify_price",
                       IF shown.details.price = "Price not found"
                       THEN Raise("AssertionError") ELSE Return(PyNone))
    /\ UNCHANGED <<shown, _current_product_data, _last_product_details, extracted_at,
                   outside_shop>>

get_product_details ==
    /\ _last_product_details' = get_first_product_details
    /\ extracted_at' = shown.search
    /\ action' = ActionEnded("get_product_details", Return(PyNone))
    /\ UNCHANGED <<shown, _current_product_data, outside_shop>>

\* `if not self._last_product_details`: extracts only when nothing is remembered
verify_product_details_valid ==
    /\ IF _last_product_details = PyNone
       THEN /\ _last_product_details' = get_first_product_details
            /\ extracted_at' = shown.search
       ELSE UNCHANGED <<_last_product_details, extracted_at>>
    /\ action' = ActionEnded("verify_product_details_valid", details_valid(_last_product_details'))
    /\ UNCHANGED <<shown, _current_product_data, outside_shop>>

\* search_for_product(product_key).verify_search_results(min_results)
\*     .get_product_details().verify_product_details_valid()
complete_product_search_workflow(product_key) ==
    /\ shown.search < MaxSearches
    /\ LET loaded == data_loader(product_key) IN
       IF loaded.exc # "none"
       THEN /\ action' = ActionEnded("complete_product_search_workflow", loaded)
            /\ UNCHANGED <<shown, _current_product_data, _last_product_details, extracted_at>>
       ELSE /\ _current_product_data' = loaded.ret
            /\ \E details \in ProductDetails, enough \in BOOLEAN :
                  /\ shown' = ResultsPage(details)
                  /\ IF ~enough
                     THEN /\ action' = ActionEnded("complete_product_search_workflow",
                                             Raise("AssertionError"))
                          /\ UNCHANGED <<_last_product_details, extracted_at>>
                     ELSE /\ _last_product_details' = details
                          /\ extracted_at' = shown'.search
                          /\ action' = ActionEnded("complete_product_search_workflow",
                                             details_valid(details))
    /\ UNCHANGED outside_shop

InitShopping == InitWaitUtils

NextShopping ==
    \/ \E product_key \in ProductKeys : search_for_product(product_key)
    \/ search_for_product_by_term
    \/ verify_search_results
    \/ \E keywords \in KeywordArgs : verify_product_contains_keywords(keywords)
    \/ extract_and_verify_price
    \/ get_product_details
    \/ verify_product_details_valid
    \/ \E product_key \in ProductKeys : complete_product_search_workflow(product_key)

SpecShopping == InitShopping /\ [][NextShopping]_vars

\* ------------------------------------------------------------------------
\* Vocabulary of the properties
\* ------------------------------------------------------------------------
ReadOps ==
    {"get_section", "get_section_item", "get_all_section_items", "list_sections",
     "list_section_items", "has_section", "has_item", "get_config_value"}

Cached(cls) == cls \in DOMAIN _data_cache

\* the step is a call of op on class cls (every call starts from Idle and
\* leaves its record in last)
Called(op, cls) == last = Idle /\ last'.op = op /\ last'.cls = cls

\* a caller holds an accessor of the class: a construction of it has returned
Held(cls) == \E o \in handles : objs[o].cls = cls

\* the registry entry and the cache entry of a class are what they were
SameEntries(cls) ==
    /\ (cls \in DOMAIN _instances') = (cls \in DOMAIN _instances)
    /\ cls \in DOMAIN _instances => _instances'[cls] = _instances[cls]
    /\ (cls \in DOMAIN _data_cache') = (cls \in DOMAIN _data_cache)
    /\ cls \in DOMAIN _data_cache => _data_cache'[cls] = _data_cache[cls]

\* the document a text stands for: its sections, an empty text has none
DocumentOf(text) ==
    IF text.node.k = "null" THEN EmptyDict ELSE construct_object(text.node)

\* the names a not-found message lists after its first n pieces
Listed(msg, n) == {msg[i] : i \in {j \in (n + 1)..Len(msg) : (j - n) % 2 = 1}}

\* ------------------------------------------------------------------------
\* C1 as stated: in a span of constructions and reads without reload(), the
\* artifact of a class is parsed at most once and all get_section calls
\* read one and the same document object.
\* ------------------------------------------------------------------------
C1_ParsedAtMostOnce ==
    hist.watch # "-" => hist.parses <= 1 /\ Cardinality(hist.seen) <= 1

\* C1 amended: once a class has a cached document, and until its next
\* reload(), no construction and no read parses the artifact again, the
\* cached document stays the same object, and every get_section call reads
\* that object.
C1_LoadOnce ==
    [][(Cached(hist.watch) /\ ~Called("reload", hist.watch))
         => /\ hist'.parses = hist.parses
            /\ hist.watch \in DOMAIN _data_cache'
            /\ _data_cache'[hist.watch] = _data_cache[hist.watch]
            /\ Called("get_section", hist.watch)
                 => last'.obs = _data_cache[hist.watch].id]_vars

\* C1 witness: the watched class was loaded once, get_section has read its
\* document, and a further construction has returned without parsing.
C1_Witness ==
    /\ Cached(hist.watch)
    /\ last.op = "construct" /\ last.cls = hist.watch /\ last.res.exc = "none"
    /\ hist.parses = 1
    /\ hist.seen = {_data_cache[hist.watch].id}

\* ------------------------------------------------------------------------
\* C2: a construction request returns the registered instance of the class
\* when there is one; otherwise it makes one, registers it, binds it to the
\* path given and performs the first load. So every accessor a caller holds
\* is the one registered instance of its class.
\* ------------------------------------------------------------------------
C2_Construction ==
    [][\A cls \in Types : \A p \in PathArgs(cls) :
         Construct(cls, p) =>
            /\ cls \in DOMAIN _instances =>
                  /\ _instances' = _instances
                  /\ Len(objs') = Len(objs)
                  /\ last'.res.exc = "none" => last'.res.ret = PyInt(_instances[cls])
            /\ cls \notin DOMAIN _instances =>
                  /\ Len(objs') = Len(objs) + 1
                  /\ DOMAIN _instances' = DOMAIN _instances \cup {cls}
                  /\ _instances'[cls] = Len(objs')
                  /\ objs'[Len(objs')] = [cls |-> cls, yaml_file |-> p]
                  /\ (last'.res.exc = "none") = (cls \in DOMAIN _data_cache')
                  /\ last'.res.exc = "none" => last'.res.ret = PyInt(Len(objs'))
            /\ \A o \in handles' :
                  /\ objs'[o].cls \in DOMAIN _instances'
                  /\ _instances'[objs'[o].cls] = o]_vars

\* C2 witness: a construction with a path other than the bound one has
\* returned the instance that was registered already.
C2_Witness ==
    /\ last.op = "construct" /\ last.res.exc = "none"
    /\ objs[_instances[last.cls]].yaml_file # last.args[1]
    /\ last.res.ret = PyInt(_instances[last.cls])

\* ------------------------------------------------------------------------
\* C3: after a reload() of a class that succeeded, and until the next
\* reload() of it, the cached document is the one the text read by that
\* reload() stands for, whatever the artifact holds by now, and every getter
\* gives what it gives on that document.
\* ------------------------------------------------------------------------
GetterOn(d, op, args) ==
    CASE op = "get_section" -> get_section(d, args[1])
      [] op = "get_section_item" -> get_section_item(d, args[1], args[2])
      [] op = "list_sections" -> list_sections(d)
      [] op = "has_section" -> has_section(d, args[1])

C3_ReloadInvalidation ==
    hist.text # Absent =>
        /\ Cached(hist.watch)
        /\ _data_cache[hist.watch].val = DocumentOf(hist.text)
        /\ (last.cls = hist.watch /\ last.op \in ReadOps) =>
              /\ last.obs = _data_cache[hist.watch].id
              /\ last.res = GetterOn(DocumentOf(hist.text), last.op, last.args)

\* C3 witness: a getter has returned from the document of the reload while
\* the artifact holds something else by now.
C3_Witness ==
    /\ hist.text = DocB
    /\ last.cls = hist.watch /\ last.op = "get_section" /\ last.res.exc = "none"
    /\ files[objs[_instances[hist.watch]].yaml_file] = DocA

\* ------------------------------------------------------------------------
\* C4: reload() of one class, returning or raising, leaves the cached
\* document and the registered instance of every other class as they were.
\* ------------------------------------------------------------------------
C4_ReloadFrame ==
    [][\A self \in handles :
         Reload(self) => \A t \in Types \ {objs[self].cls} : SameEntries(t)]_vars

\* C4 witness: a reload() has raised while another class has a cached
\* document.
C4_Witness ==
    /\ last.op = "reload" /\ last.res.exc # "none"
    /\ \E t \in Types \ {last.cls} : Cached(t)

\* ------------------------------------------------------------------------
\* C5 as stated: once a class has completed its first load, no read and no
\* further construction changes its cached document or its registry entry.
\* ------------------------------------------------------------------------
C5_OnlyReloadMutates ==
    [][\A cls \in Types :
         (Held(cls) /\ \E op \in ReadOps \cup {"construct"} : Called(op, cls))
            => SameEntries(cls)]_vars

\* C5 amended: once a class has completed its first load no read changes
\* its cached document or its registry entry, and no further construction
\* does while the class has a cached document (after a reload() that failed
\* the class has none, and the next construction loads again).
C5_ReadsAndCachedConstructionsFrame ==
    [][\A cls \in Types :
         \/ Held(cls) /\ \E op \in ReadOps : Called(op, cls)
         \/ Cached(cls) /\ Called("construct", cls)
         => SameEntries(cls)]_vars

\* C5 witness: a read has raised on a class whose cached document lacks
\* what was asked for.
C5_Witness ==
    /\ last.op \in ReadOps /\ last.res.exc # "none"
    /\ Cached(last.cls) /\ _data_cache[last.cls].val # EmptyDict

\* ------------------------------------------------------------------------
\* C6: a load, the first one or a reload(), of a path that holds no artifact
\* at that moment raises FileNotFoundError and leaves the class without a
\* cached document.
\* ------------------------------------------------------------------------
C6_MissingArtifact ==
    [][/\ \A cls \in Types : \A p \in PathArgs(cls) :
            (Construct(cls, p) /\ ~Cached(cls) /\ files[p] = Absent)
               => last'.res = Raise("FileNotFoundError") /\ cls \notin DOMAIN _data_cache'
       /\ \A self \in handles :
            (Reload(self) /\ files[objs[self].yaml_file] = Absent)
               => /\ last'.res = Raise("FileNotFoundError")
                  /\ objs[self].cls \notin DOMAIN _data_cache']_vars

\* C6 witness: reload() has raised FileNotFoundError.
C6_Witness ==
    /\ last.op = "reload" /\ last.res = Raise("FileNotFoundError")
    /\ ~Cached(last.cls)

\* ------------------------------------------------------------------------
\* C7: a load, the first one or a reload(), of an empty text returns and
\* caches a document with no sections; on such a document list_sections()
\* is [] and has_section is False for every name.
\* ------------------------------------------------------------------------
C7_EmptyDocument ==
    [][/\ \A cls \in Types : \A p \in PathArgs(cls) :
            (Construct(cls, p) /\ ~Cached(cls) /\ files[p] = EmptyText)
               => /\ last'.res.exc = "none"
                  /\ cls \in DOMAIN _data_cache'
                  /\ _data_cache'[cls].val = EmptyDict
       /\ \A self \in handles :
            (Reload(self) /\ files[objs[self].yaml_file] = EmptyText)
               => /\ last'.res.exc = "none"
                  /\ objs[self].cls \in DOMAIN _data_cache'
                  /\ _data_cache'[objs[self].cls].val = EmptyDict
       /\ \A cls \in Types :
            (Cached(cls) /\ _data_cache[cls].val = EmptyDict)
               => /\ Called("list_sections", cls) => last'.res = Return(PyList(<<>>))
                  /\ Called("has_section", cls) => last'.res = Return(PyBool(FALSE))]_vars

\* C7 witness: has_section has answered on the document of an empty artifact.
C7_Witness ==
    /\ last.op = "has_section" /\ last.res = Return(PyBool(FALSE))
    /\ Cached(last.cls) /\ _data_cache[last.cls].val = EmptyDict
    /\ files[objs[_instances[last.cls]].yaml_file] = EmptyText

\* ------------------------------------------------------------------------
\* C8: get_section(name) returns what the cached document holds under name;
\* for a name the document lacks it raises KeyError with a message that
\* lists the section names of the document, all of them and no other.
\* ------------------------------------------------------------------------
C8_GetSection ==
    last.op = "get_section" =>
        LET d == data(_data_cache, last.cls).val
            name == last.args[1]
        IN IF name \in KeySet(d)
           THEN last.res = Return(DictGet(d, name))
           ELSE /\ last.res.exc = "KeyError"
                /\ Listed(last.res.msg, 3) = KeySet(d)
                /\ Len(last.res.msg) = 3 + (IF Len(d.e) = 0 THEN 0 ELSE 2 * Len(d.e) - 1)

\* C8 witness: get_section has raised on a document with two sections.
C8_Witness ==
    /\ last.op = "get_section" /\ last.res.exc = "KeyError"
    /\ Cached(last.cls) /\ Len(_data_cache[last.cls].val.e) = 2

C10_TotalChecks ==
    last.op \in {"has_section", "has_item"} =>
        last.res.exc = "none" /\ last.res.ret.k = "bool"

\* ------------------------------------------------------------------------
\* C11: get_config_value(*keys, default) never raises. It returns the value
\* reached when every key of the chain is present along nested mappings, and
\* default when some key is absent from the mapping reached before it or
\* the value reached before it is no mapping.
\* ------------------------------------------------------------------------
\* what the first n keys of the chain lead to from d; Lost when they lead
\* nowhere
Lost == [k |-> "lost"]

RECURSIVE Reached(_, _, _)
Reached(d, keys, n) ==
    IF n = 0 THEN d
    ELSE LET before == Reached(d, keys, n - 1) IN
         IF before = Lost \/ ~IsDict(before) THEN Lost
         ELSE IF keys[n] \in KeySet(before) THEN DictGet(before, keys[n]) ELSE Lost

C11_GetConfigValue ==
    last.op = "get_config_value" =>
        LET d == data(_data_cache, last.cls).val
            end == Reached(d, last.args, Len(last.args))
        IN /\ last.res.exc = "none"
           /\ end # Lost => last.res.ret = end
           /\ end = Lost => last.res.ret \in Defaults
           /\ (d = DocumentOf(DocA) /\ last.args = <<"products", "widget_a", "min_price">>)
                 => last.res.ret = PyInt(10)
           /\ last.args = <<"products", "nosuch">> => last.res.ret = PyStr("x")

\* C11 witness: the walk has stopped at a value that is no mapping (None
\* under config) and has given the default.
C11_Witness ==
    /\ last.op = "get_config_value" /\ last.args = <<"config", "timeout">>
    /\ Cached(last.cls) /\ DictGet(_data_cache[last.cls].val, "config") = PyNone
    /\ last.res = Return(PyStr("x"))

\* ------------------------------------------------------------------------
\* C12: a load, the first one or a reload(), of a text in which a mapping
\* has two entries for one key raises, and no document is cached for the
\* class.
\* ------------------------------------------------------------------------
\* some mapping of the node tree repeats a key
RECURSIVE HasDuplicateKey(_)
HasDuplicateKey(node) ==
    /\ node.k = "map"
    /\ \/ \E i, j \in 1..Len(node.e) : i < j /\ node.e[i].key = node.e[j].key
       \/ \E i \in 1..Len(node.e) : HasDuplicateKey(node.e[i].val)

DuplicateKeyText(content) ==
    content # Absent /\ content.wf /\ HasDuplicateKey(content.node)

C12_DuplicateKeysRejected ==
    [][/\ \A cls \in Types : \A p \in PathArgs(cls) :
            (Construct(cls, p) /\ ~Cached(cls) /\ DuplicateKeyText(files[p]))
               => last'.res.exc # "none" /\ cls \notin DOMAIN _data_cache'
       /\ \A self \in handles :
            (Reload(self) /\ DuplicateKeyText(files[objs[self].yaml_file]))
               => /\ last'.res.exc # "none"
                  /\ objs[self].cls \notin DOMAIN _data_cache']_vars

\* ------------------------------------------------------------------------
\* C13: a load, the first one or a reload(), of a text the parser rejects
\* raises the parser's error to the caller after one parse, and leaves the
\* class without a cached document.
\* ------------------------------------------------------------------------
C13_ParseFailure ==
    [][/\ \A cls \in Types : \A p \in PathArgs(cls) :
            (Construct(cls, p) /\ ~Cached(cls) /\ files[p] = MalformedText)
               => /\ last'.res = Raise("YAMLError")
                  /\ cls \notin DOMAIN _data_cache'
                  /\ cls = hist.watch => hist'.parses = hist.parses + 1
       /\ \A self \in handles :
            (Reload(self) /\ files[objs[self].yaml_file] = MalformedText)
               => /\ last'.res = Raise("YAMLError")
                  /\ objs[self].cls \notin DOMAIN _data_cache']_vars

\* C13 witness: reload() of a class that had a document has raised the
\* parser's error and the class has no cached document.
C13_Witness ==
    /\ last.op = "reload" /\ last.res = Raise("YAMLError")
    /\ last.cls = hist.watch
    /\ ~Cached(last.cls)
    /\ files[objs[_instances[last.cls]].yaml_file] = MalformedText

\* ------------------------------------------------------------------------
\* C18: once the instance of a class is bound to a path, no construction,
\* read or reload() changes the path its later loads read from.
\* ------------------------------------------------------------------------
BoundPath(instances, objects, cls) == objects[instances[cls]].yaml_file

C18_PathFixed ==
    [][\A cls \in DOMAIN _instances :
          BoundPath(_instances', objs', cls) = BoundPath(_instances, objs, cls)]_vars

\* ------------------------------------------------------------------------
\* C14: wait_with_retry and the wrapper of retry_on_exception call func at
\* most max_attempts times; no call of func follows one that returned, and
\* the helper returns what that call returned; when max_attempts (>= 1)
\* calls have all raised an exception the except clause catches, the
\* helper raises the exception of the last of them.
\* ------------------------------------------------------------------------
Retrying == pc # "idle" /\ params.fn \in {"wait_with_retry", "retry_on_exception"}

Max(a, b) == IF a >= b THEN a ELSE b

C14_BoundedRetry ==
    Retrying =>
        LET calls == FuncCalls
            n == Len(calls)
        IN /\ n <= Max(params.max_attempts, 0)
           /\ \A i \in 1..n : calls[i].attempt = i
           /\ \A i \in 1..(n - 1) : calls[i].out.exc # "none"
           /\ (n > 0 /\ calls[n].out.exc = "none") => pc = "done" /\ result = calls[n].out
           /\ (pc = "done" /\ n = params.max_attempts /\ n >= 1 /\ calls[n].out.exc # "none")
                 => result = calls[n].out

\* C14 witness: three attempts out of three have failed and the helper has
\* raised the exception of the third.
C14_Witness ==
    /\ Retrying /\ pc = "done"
    /\ params.max_attempts = 3 /\ Len(FuncCalls) = 3
    /\ params.exceptions = {"Exception"}
    /\ result \in {ExcObj(c, 3) : c \in ExceptionClasses}

\* ------------------------------------------------------------------------
\* C15: wait_for_condition returns True at the first poll that yields
\* something true, polls only while elapsed < timeout, and raises
\* TimeoutError when elapsed has reached timeout without such a poll; it
\* never returns False. With suppress_errors an exception of condition_func
\* counts as not met and polling goes on; without it the exception
\* propagates at once.
\* ------------------------------------------------------------------------
Waiting == pc # "idle" /\ params.fn = "wait_for_condition"

Polls == SelectSeq(events, LAMBDA x : x.ev = "condition_func")

Met(poll) == poll.out.exc = "none" /\ Truthy(poll.out.ret)

C15_WaitForCondition ==
    Waiting =>
        LET n == Len(Polls)
            ended == n > 0 /\ events[Len(events)].ev = "condition_func"
        IN /\ \A i \in 1..n : Polls[i].elapsed < params.timeout
           /\ \A i \in 1..(n - 1) :
                 /\ ~Met(Polls[i])
                 /\ Polls[i].out.exc # "none" => params.suppress_errors
           /\ (ended /\ Met(Polls[n])) => pc = "done" /\ result = Return(PyBool(TRUE))
           /\ (ended /\ Polls[n].out.exc # "none") =>
                 IF params.suppress_errors
                 THEN pc = "poll_sleep"
                 ELSE pc = "done" /\ result = Polls[n].out
           /\ pc = "done" =>
                 \/ result = Return(PyBool(TRUE)) /\ ended /\ Met(Polls[n])
                 \/ /\ result = Raise("TimeoutError")
                    /\ elapsed >= params.timeout
                    /\ \A i \in 1..n : ~Met(Polls[i])
                 \/ /\ ~params.suppress_errors
                    /\ ended /\ Polls[n].out.exc # "none" /\ result = Polls[n].out

\* C15 witness: a poll has raised, polling has gone on, and a later poll has
\* made the helper return True.
C15_Witness ==
    /\ Waiting /\ pc = "done" /\ result = Return(PyBool(TRUE))
    /\ Len(Polls) >= 2 /\ Polls[1].out.exc # "none"

\* ------------------------------------------------------------------------
\* C19: whenever wait_with_retry returns normally, what it returns is what
\* a call of func made during that call returned, whatever max_attempts is.
\* ------------------------------------------------------------------------
C19_ReturnsFuncValue ==
    (pc = "done" /\ params.fn = "wait_with_retry" /\ result.exc = "none")
        => \E i \in 1..Len(FuncCalls) : FuncCalls[i].out = result

\* ------------------------------------------------------------------------
\* C20: in wait_with_retry and the wrapper of retry_on_exception, an
\* exception of func that the exceptions tuple does not cover ends the call
\* with that exception: no attempt, sleep or on_retry call follows it.
\* ------------------------------------------------------------------------
C20_UncaughtPropagates ==
    Retrying =>
        \A i \in 1..Len(events) :
            (/\ events[i].ev = "func"
             /\ events[i].out.exc # "none"
             /\ params.exceptions \cap Bases(events[i].out.exc) = {})
               => /\ i = Len(events)
                  /\ pc = "done"
                  /\ result = events[i].out

\* C20 witness: the second attempt of three has raised an exception outside
\* the tuple and the helper has raised it.
C20_Witness ==
    /\ Retrying /\ pc = "done"
    /\ params.max_attempts = 3 /\ params.exceptions = {"ValueError"}
    /\ Len(FuncCalls) = 2
    /\ result = ExcObj("KeyError", 2)

\* ------------------------------------------------------------------------
\* C16 as stated: every named operation of the task runner runs one
\* external tool and ends the process with the exit code of that tool.
\* ------------------------------------------------------------------------
\* the exit code of a process that has ended; a console script whose
\* operation returns ends with 0
ExitCode == IF exit = Returned THEN 0 ELSE exit.code

Ended == task # "-" /\ exit # Running

FailedCallWithPage(rep) ==
    rep.when = "call" /\ rep.outcome = "failed" /\ item.uses_page

C17_FailureHook ==
    /\ Len(reported) = Len(phases)
    /\ \A i \in 1..Len(phases) :
          /\ reported[i] = phases[i]
          /\ FailedCallWithPage(phases[i])
                => \E j \in 1..Len(shots) : shots[j].full_page /\ shots[j].before = i - 1
    /\ \A j \in 1..Len(shots) :
          /\ shots[j].before + 1 <= Len(phases)
          /\ FailedCallWithPage(phases[shots[j].before + 1])
    /\ Len(shots) <= 1

\* the same holds wherever the directory of the screenshots can be made
FailureHookWithDirectory == screenshots_dir # "file" => C17_FailureHook

\* ------------------------------------------------------------------------
\* C21: in wait_with_retry with an on_retry callback, every failed attempt
\* but the last is followed by one call on_retry(attempt, e) with the number
\* and the exception of that attempt, and that call by the sleep before the
\* next attempt; on_retry is called nowhere else; a callback that raises
\* changes nothing in what follows.
\* ------------------------------------------------------------------------
WithCallback == pc # "idle" /\ params.fn = "wait_with_retry" /\ params.on_retry = "given"

\* the attempt raised an exception of the tuple and more attempts are allowed
RetriedFailure(e) ==
    /\ e.ev = "func" /\ e.out.exc # "none"
    /\ params.exceptions \cap Bases(e.out.exc) # {}
    /\ e.attempt # params.max_attempts

C21_OnRetry ==
    WithCallback =>
        LET n == Len(events) IN
        /\ \A i \in 1..n :
              RetriedFailure(events[i]) =>
                 /\ i = n => pc = "on_retry"
                 /\ i < n => events[i + 1] \in
                                {OnRetryEvent(events[i].attempt, events[i].out, out) :
                                    out \in CallbackOutcomes}
        /\ \A i \in 1..n :
              events[i].ev = "on_retry" =>
                 /\ i > 1 /\ RetriedFailure(events[i - 1])
                 /\ i = n => pc = "sleep"
                 /\ i < n => events[i + 1].ev = "sleep"
                 /\ i + 1 < n => events[i + 2] = FuncEvent(events[i].attempt + 1, events[i + 2].out)
                                 /\ events[i + 2].ev = "func"

\* C21 witness: the callback has raised after the first attempt, has been
\* called again after the second, and the third attempt has succeeded.
C21_Witness ==
    /\ WithCallback /\ pc = "done"
    /\ result = Return(PyInt(3))
    /\ Len(events) = 7
    /\ events[2].ev = "on_retry" /\ events[2].out.exc # "none"
    /\ events[5].ev = "on_retry" /\ events[5].attempt = 2

\* ------------------------------------------------------------------------
\* C22: wait_with_retry and the wrapper of retry_on_exception sleep once
\* between two attempts and never after the last; the k-th sleep of a call
\* lasts wait_time * 2^(k-1) with exponential_backoff and wait_time without.
\* ------------------------------------------------------------------------
Sleeps == SelectSeq(events, LAMBDA x : x.ev = "sleep")

C22_BackoffSchedule ==
    Retrying =>
        LET n == Len(events) IN
        /\ \A k \in 1..Len(Sleeps) :
              Sleeps[k].secs = IF params.exponential_backoff
                               THEN params.wait_time * 2^(k - 1)
                               ELSE params.wait_time
        /\ \A i \in 1..n :
              /\ (events[i].ev = "func" /\ i > 1) => events[i - 1].ev = "sleep"
              /\ events[i].ev = "sleep" =>
                    /\ i > 1 /\ events[i - 1].ev # "sleep"
                    /\ i < n => events[i + 1].ev = "func"
                    /\ i = n => pc = "func"
        /\ Len(FuncCalls) > 0 => Len(Sleeps) \in {Len(FuncCalls) - 1, Len(FuncCalls)}
        /\ pc = "done" => Len(Sleeps) = Max(Len(FuncCalls) - 1, 0)

\* C22 witness: three attempts with backoff from wait_time 3 have slept 3
\* and 6.
C22_Witness ==
    /\ Retrying /\ pc = "done"
    /\ params.exponential_backoff /\ params.wait_time = 3
    /\ Len(FuncCalls) = 3
    /\ Sleeps = <<SleepEvent(3), SleepEvent(6)>>

\* ------------------------------------------------------------------------
\* C23: whenever wait_for_value_change returns normally, the value it
\* returns differs from the initial value it compared against.
\* ------------------------------------------------------------------------
C23_ReturnsChangedValue ==
    (pc = "done" /\ params.fn = "wait_for_value_change" /\ result.exc = "none")
        => result.ret # params.initial_value

\* ------------------------------------------------------------------------
\* C24: retry_with_timeout calls func only while the time elapsed is below
\* timeout and returns what the first call that returns gives; an exception
\* outside the exceptions tuple ends the call at once with that exception;
\* a call that ends otherwise raises TimeoutError, with the timeout
\* reached; no sleep is longer than the time that remains.
\* ------------------------------------------------------------------------
Timed == pc # "idle" /\ params.fn = "retry_with_timeout"

C24_RetryWithTimeout ==
    Timed =>
        LET calls == FuncCalls
            n == Len(calls)
            settled(c) == c.out.exc = "none" \/ params.exceptions \cap Bases(c.out.exc) = {}
        IN /\ \A i \in 1..n : calls[i].at < params.timeout /\ calls[i].attempt = i
           /\ \A i \in 1..(n - 1) : ~settled(calls[i])
           /\ (n > 0 /\ settled(calls[n])) =>
                 /\ pc = "done" /\ result = calls[n].out
                 /\ events[Len(events)] = calls[n]
           /\ (pc = "done" /\ ~(n > 0 /\ settled(calls[n]))) =>
                 /\ result = Raise("TimeoutError")
                 /\ clock - start_time >= params.timeout
           /\ \A i \in 1..Len(Sleeps) :
                 /\ Sleeps[i].secs <= Sleeps[i].remaining
                 /\ Sleeps[i].secs <= params.retry_interval
                 /\ Sleeps[i].secs > 0

\* C24 witness: after two failed attempts, with a sleep cut down to the one
\* tick that remained, the call has raised TimeoutError.
C24_Witness ==
    /\ Timed /\ pc = "done" /\ result = Raise("TimeoutError")
    /\ Len(FuncCalls) >= 2
    /\ \E i \in 1..Len(Sleeps) : Sleeps[i].secs < params.retry_interval

\* ------------------------------------------------------------------------
\* C25: format runs isort, black, ruff --fix and validate-yaml in that
\* order, each only after every earlier one has exited with 0; the first
\* exit code other than 0 ends the process at once with that code; pr-ready
\* starts the test run only after the four format steps have exited with 0.
\* ------------------------------------------------------------------------
Stepwise == task \in {"format_code", "pr_ready"}

TestRun == "poetry run pytest -v"

SyntaxFails(f) == ~f.readable \/ (~f.blank /\ ~f.text.wf)

DuplicateFails(f) == ~SyntaxFails(f) /\ ~f.blank /\ HasDuplicateKey(f.text.node)

RunReturned == validating = "returned"

C26_ValidatorExitCode ==
    RunReturned =>
        LET n == Len(yaml_files)
            failing == {i \in 1..n : SyntaxFails(yaml_files[i]) \/ DuplicateFails(yaml_files[i])}
            about(log, i) == SelectSeq(log, LAMBDA e : e.file = i)
        IN /\ returned = (IF failing # {} THEN 1 ELSE 0)
           /\ returned = (IF errors # <<>> THEN 1 ELSE 0)
           /\ validated_count = Cardinality({i \in 1..n : ~SyntaxFails(yaml_files[i])})
           /\ \A i \in 1..n :
                 SyntaxFails(yaml_files[i])
                    => Len(about(errors, i)) = 1 /\ about(warnings, i) = <<>>

\* C26 witness: of two files found the first has lines indented by 3 spaces
\* and is counted, the second fails the syntax check and is not; run has
\* returned 1 with warnings about the first file only.
C26_Witness ==
    /\ RunReturned /\ returned = 1 /\ Len(yaml_files) = 2
    /\ validated_count = 1
    /\ SyntaxFails(yaml_files[2])
    /\ warnings # <<>> /\ \A i \in 1..Len(warnings) : warnings[i].file = 1

\* C26: run has returned 0 although it has warnings.
C26_WitnessWarningsOnly ==
    RunReturned /\ returned = 0 /\ warnings # <<>> /\ errors = <<>>

\* ------------------------------------------------------------------------
\* C27: a reload() that fails leaves its class without a cached document;
\* as long as the class has none, every read through any handle sees a
\* document with no sections (list_sections() is [], has_section is False,
\* get_section raises KeyError that lists no section) and leaves the class
\* without one; only a load that succeeds gives the class a cached document
\* again.
\* ------------------------------------------------------------------------
LoadSucceeded(cls) ==
    last'.cls = cls /\ last'.op \in {"construct", "reload"} /\ last'.res.exc = "none"

C27_FailedReloadDiscards ==
    [][/\ \A self \in handles :
            (Reload(self) /\ last'.res.exc # "none") => objs[self].cls \notin DOMAIN _data_cache'
       /\ \A cls \in Types :
            /\ (~Cached(cls) /\ \E op \in ReadOps : Called(op, cls)) =>
                  /\ cls \notin DOMAIN _data_cache'
                  /\ last'.obs = NoDoc
                  /\ last'.op = "list_sections" => last'.res = Return(PyList(<<>>))
                  /\ last'.op = "has_section" => last'.res = Return(PyBool(FALSE))
                  /\ last'.op = "get_section" =>
                        last'.res.exc = "KeyError" /\ Len(last'.res.msg) = 3
            /\ (~Cached(cls) /\ cls \in DOMAIN _data_cache') => LoadSucceeded(cls)]_vars

\* C27 witness: get_section has raised through a handle of a class that has
\* lost its cached document in a reload() that failed.
C27_Witness ==
    /\ last.op = "get_section" /\ last.res.exc = "KeyError" /\ Len(last.res.msg) = 3
    /\ Held(last.cls) /\ ~Cached(last.cls)

\* ------------------------------------------------------------------------
\* C28: no read gives a class without a cached document one; every
\* construction of such a class runs the load, with the outcome the
\* artifact at its path decides; a construction of a class that has a
\* cached document does not load.
\* ------------------------------------------------------------------------
C28_ConstructionRetriesLoad ==
    [][\A cls \in Types :
         /\ (~Cached(cls) /\ \E op \in ReadOps : Called(op, cls)) => cls \notin DOMAIN _data_cache'
         /\ \A p \in PathArgs(cls) :
               /\ (~Cached(cls) /\ Construct(cls, p)) =>
                     IF files[p] = Absent
                     THEN last'.res = Raise("FileNotFoundError") /\ cls \notin DOMAIN _data_cache'
                     ELSE IF ~files[p].wf
                     THEN last'.res = Raise("YAMLError") /\ cls \notin DOMAIN _data_cache'
                     ELSE /\ last'.res.exc = "none"
                          /\ cls \in DOMAIN _data_cache'
                          /\ _data_cache'[cls].val = DocumentOf(files[p])
               /\ (Cached(cls) /\ Construct(cls, p)) =>
                     /\ last'.res.exc = "none"
                     /\ _data_cache'[cls] = _data_cache[cls]]_vars

\* C28 witness: a class whose accessor is held lost its cached document in
\* a reload() that failed, and a construction of it has tried the load and
\* has failed too.
C28_Witness ==
    /\ last.op = "construct" /\ last.res.exc # "none"
    /\ Held(last.cls) /\ ~Cached(last.cls)

\* ------------------------------------------------------------------------
\* C29: a class that has a cached document has a registered instance, and a
\* registered instance stays registered and stays the same object, whatever
\* the step, a load that fails included.
\* ------------------------------------------------------------------------
Registered(cls) == cls \in DOMAIN _instances

C29_RegistryInvariant ==
    [][\A cls \in Types :
         /\ cls \in DOMAIN _data_cache' => cls \in DOMAIN _instances'
         /\ Registered(cls) =>
               /\ cls \in DOMAIN _instances'
               /\ _instances'[cls] = _instances[cls]
               /\ objs'[_instances'[cls]].cls = cls]_vars

\* C29 witness: a construction has failed on a malformed artifact with no
\* accessor of the class handed out; the instance __new__ registered is
\* there and is the only object made.
C29_Witness ==
    /\ last.op = "construct" /\ last.res.exc # "none"
    /\ Registered(last.cls) /\ ~Held(last.cls)
    /\ Len(objs) = 1 /\ objs[1].yaml_file = "google_shopping.yaml"
    /\ files["google_shopping.yaml"] = MalformedText

\* ------------------------------------------------------------------------
\* C30: the product details that verify_product_details_valid validates
\* were extracted after the most recent search, never before it.
\* ------------------------------------------------------------------------
C30_ValidatesFreshDetails ==
    action.name = "verify_product_details_valid" => extracted_at = shown.search

TypeOK ==
    /\ DOMAIN _instances \subseteq Types
    /\ DOMAIN _data_cache \subseteq Types

====
